---- MODULE Spec2Model ----
(***************************************************************************)
(* Credential issuance and rotation of ds-smartContract (auth/jwt.ts and   *)
(* auth/credentials.ts): issueTokens, rotateRefreshToken, authenticateJwt  *)
(* and revokeFamily over the in-memory refreshStore.                       *)
(*                                                                         *)
(* Node runs every handler to completion: each handler is one action.     *)
(* Spec is the process under sequential calls.  SpecRace adds the requests *)
(* to POST /auth/refresh that have arrived and are not handled yet (in     *)
(* flight), handled in any order.  Time is counted in seconds, as the exp  *)
(* claim of a token is.                                                    *)
(*                                                                         *)
(* SpecLogin is the process under POST /auth/token, SpecBoot the start of  *)
(* index.ts with getEnv() of config/env.ts, and SpecChain the routes of    *)
(* routes/blockchain.ts over the HashStore contract.  SpecSteps runs       *)
(* rotateRefreshToken statement by statement, between the other calls.     *)
(*                                                                         *)
(* SpecTwin is two processes that share the secrets and keep one           *)
(* refreshStore each, SpecConfig the process under changes of process.env, *)
(* SpecRoot the computeMetadataRoot of the two routes, SpecDiff the        *)
(* deepDiff of utils/deepDiff.ts, and SpecDown the shutdown of index.ts    *)
(* under weak fairness of its callbacks.                                   *)
(***************************************************************************)
EXTENDS Integers, FiniteSets, Sequences, TLC

\* ------------------------------------------------------------------ bounds
\* Calls of issueTokens (logins and successful rotations) in one run.
MaxMints == 3
\* The last second of the clock.
MaxTime == 2

\* -------------------------------------------------------- configuration
\* ACCESS_TOKEN_TTL and REFRESH_TOKEN_TTL of the environment, in seconds.
ACCESS_TOKEN_TTL == 1
REFRESH_TOKEN_TTL == 2

Subjects == {"app-1", "app-2"}
Clients == {"c1", "c2"}

AccessSecret == "access-secret"
RefreshSecret == "refresh-secret"
AttackerSecret == "attacker-secret"

\* getEnv(): the cached configuration. The two secrets are independent
\* options, and nothing stops an operator from setting them to one value.
Envs ==
  { [JWT_ACCESS_SECRET |-> AccessSecret, JWT_REFRESH_SECRET |-> rs,
     JWT_ISSUER |-> "ds-issuer", JWT_AUDIENCE |-> "ds-audience",
     ACCESS_TOKEN_TTL |-> ACCESS_TOKEN_TTL,
     REFRESH_TOKEN_TTL |-> REFRESH_TOKEN_TTL,
     APP_ID |-> "app-1", APP_SECRET |-> "app-1-secret"] : rs \in {RefreshSecret, AccessSecret} }

VARIABLES
  env,          \* the configuration getEnv() returns to the auth functions
  refreshStore, \* Map<jti, RefreshRecord>
  nextId,       \* the next value of generateId()
  now,          \* Date.now() in seconds
  minted,       \* the tokens this process has returned to its callers
  pending,      \* per client connection, the /auth/refresh request in flight
  rotatedOk,    \* history: per refresh id, how many rotations of it have succeeded
  revokedIds,   \* history: the refresh ids minted before a revokeFamily of their subject
  last,         \* the outcome of the latest call
  parent,       \* history: per refresh id, the id whose rotation minted it (0: a login)
  pc,           \* the rotateRefreshToken call in progress and its position
  environ,      \* process.env: per required option "absent", "" or a value
  cachedEnv,    \* env.ts: the cached configuration, or null
  phase,        \* index.ts: "loading" the module, "listening" or "exited"
  served,       \* the latest handler run and the getEnv() result it got
  owner,        \* HashStore: what contract.owner() returns
  signer,       \* what the wallet of PRIVATE_KEY returns as its address
  records,      \* HashStore: mapping(bytes32 => HashRecord) _records
  tx,           \* the transaction the latest step sent to the contract
  emitted,      \* HashStore: the events of that transaction
  peerStore,    \* the refreshStore of a second instance of the process
  peerRevoked,  \* history: the ids in peerStore at a revokeFamily of the second instance
  written,      \* the metadata object of a write request
  writtenRoot,  \* the commitment the write handler computed from it, or "none"
  presented,    \* the metadata object of a verify request
  presentedRoot, \* the commitment the verify handler computed from it, or "none"
  conns,        \* index.ts: the open connections of the HTTP server
  timers,       \* index.ts: per pending shutdown timer, the seconds until it fires
  exitCode,     \* the argument of process.exit, or -1 while the process runs
  before,       \* the first argument of the latest deepDiff call
  after,        \* its second argument
  diffs         \* the list it returned

authVars ==
  <<env, refreshStore, nextId, now, minted, pending, rotatedOk, revokedIds, last, parent, pc>>
bootVars == <<environ, cachedEnv, phase, served>>
chainVars == <<owner, signer, records, tx, emitted>>
twinVars == <<peerStore, peerRevoked>>
rootVars == <<written, writtenRoot, presented, presentedRoot>>
downVars == <<conns, timers, exitCode>>
diffVars == <<before, after, diffs>>
extVars == <<twinVars, rootVars, downVars, diffVars>>
vars == <<authVars, bootVars, chainVars, extVars>>

\* ----------------------------------------------------------------- tokens
\* A signed token: the JwtPayload, the exp claim jwt.sign attaches and the
\* secret the HS256 signature was made with.
NoToken == [sub |-> "", iss |-> "", aud |-> "", jti |-> 0, type |-> "none", exp |-> 0, sig |-> ""]

\* jwt.sign(payload, secret, {expiresIn, algorithm: 'HS256'})
jwtSign(payload, secret, expiresIn, t) ==
  [sub |-> payload.sub, iss |-> payload.iss, aud |-> payload.aud, jti |-> payload.jti,
   type |-> payload.type, exp |-> t + expiresIn, sig |-> secret]

\* A verification that ignores the exp claim.
jwtVerify_IgnoreExpiration(token, secret, issuer, audience, t) ==
  IF token.sig # secret THEN "invalid signature"
  ELSE IF token.aud # audience THEN "jwt audience invalid"
  ELSE IF token.iss # issuer THEN "jwt issuer invalid"
  ELSE "ok"

\* jwt.verify(token, secret, {algorithms, issuer, audience}): "ok" or the
\* error it throws.
jwtVerify(token, secret, issuer, audience, t) ==
  IF token.sig # secret THEN "invalid signature"
  ELSE IF t >= token.exp THEN "jwt expired"
  ELSE IF token.aud # audience THEN "jwt audience invalid"
  ELSE IF token.iss # issuer THEN "jwt issuer invalid"
  ELSE "ok"

\* RefreshRecord
RefreshRecord(jti, sub, family, valid, expiresAt) ==
  [jti |-> jti, sub |-> sub, family |-> family, valid |-> valid, expiresAt |-> expiresAt]

\* Map.set(key, rec)
MapSet(store, key, rec) ==
  [k \in DOMAIN store \cup {key} |-> IF k = key THEN rec ELSE store[k]]

\* generateId(): 16 random bytes; the n-th identifier drawn by one call of
\* issueTokens. Random 128-bit values are modelled as never repeating.
generateId(id, n) == id + n

\* An issueTokens that registers an invalid record for a subject that holds
\* an invalid record.
Register_Sticky(store, refreshId, subject, family, expiresAt) ==
  [k \in DOMAIN store \cup {refreshId} |->
     IF k = refreshId
     THEN [jti |-> refreshId, sub |-> subject, family |-> family,
           valid |-> \A j \in DOMAIN store : store[j].sub = subject => store[j].valid,
           expiresAt |-> expiresAt]
     ELSE store[k]]

\* An issueTokens that does not store the record.
Register_Skip(store, refreshId, subject, family, expiresAt) == store

\* refreshStore.set(refreshId, {jti, sub, family, valid: true, expiresAt})
Register(store, refreshId, subject, family, expiresAt) ==
  MapSet(store, refreshId, RefreshRecord(refreshId, subject, family, TRUE, expiresAt))

\* A rotation that mints for the issuer claim instead of the subject.
RotateSubject_Issuer(payload) == payload.iss

\* The subject issueTokens is called with by rotateRefreshToken.
RotateSubject(payload) == payload.sub

\* issueTokens(subject), called with the store, the identifier source and
\* the clock as they are: the two tokens and the store after the call.
issueTokens(subject, e, store, id, t) ==
  LET accessId == generateId(id, 0)
      refreshId == generateId(id, 1)
      family == generateId(id, 2)
      accessPayload == [sub |-> subject, iss |-> e.JWT_ISSUER, aud |-> e.JWT_AUDIENCE,
                        jti |-> accessId, type |-> "access"]
      accessToken == jwtSign(accessPayload, e.JWT_ACCESS_SECRET, e.ACCESS_TOKEN_TTL, t)
      refreshPayload == [sub |-> subject, iss |-> e.JWT_ISSUER, aud |-> e.JWT_AUDIENCE,
                         jti |-> refreshId, type |-> "refresh"]
      refreshToken == jwtSign(refreshPayload, e.JWT_REFRESH_SECRET, e.REFRESH_TOKEN_TTL, t)
      exp == refreshToken.exp * 1000
  IN [accessToken |-> accessToken, refreshToken |-> refreshToken,
      store |-> Register(store, refreshId, subject, family, exp),
      nextId |-> id + 3]

\* ------------------------------------------------------ rotateRefreshToken
\* jwt.verify of the presented token against the refresh secret.
RotateVerify(oldToken, e, t) ==
  jwtVerify(oldToken, e.JWT_REFRESH_SECRET, e.JWT_ISSUER, e.JWT_AUDIENCE, t)

\* A rotation without the type check.
RotateKindOk_Any(payload) == TRUE

\* payload.type !== 'refresh' throws.
RotateKindOk(payload) == payload.type = "refresh"

\* A lookup that only checks that the record exists.
RecordUsable_Present(store, jti) == jti \in DOMAIN store

\* !record || !record.valid throws.
RecordUsable(store, jti) == jti \in DOMAIN store /\ store[jti].valid

\* A rotation that consumes the old record by deleting it.
RevokeOld_Delete(store, jti) == [k \in DOMAIN store \ {jti} |-> store[k]]

\* A rotation that forgets to invalidate the presented credential.
RevokeOld_Skip(store, jti) == store

\* record.valid = false; refreshStore.set(record.jti, record)
RevokeOld(store, jti) == MapSet(store, jti, [store[jti] EXCEPT !.valid = FALSE])

\* A lookup failure reported with the error of a verification failure.
ReuseError_Generic == "invalid_refresh"

\* throw new Error('refresh_reused_or_revoked')
ReuseError == "refresh_reused_or_revoked"

\* A reuse detection that invalidates every credential of the subject.
OnReuse_RevokeSubject(store, payload) ==
  [k \in DOMAIN store |->
     IF store[k].sub = payload.sub THEN [store[k] EXCEPT !.valid = FALSE] ELSE store[k]]

\* The store when the lookup throws: no statement has written to it.
OnReuse(store, payload) == store

\* A rotation that looks the record up before it verifies the token.
rotateRefreshToken_LookupFirst(oldToken, e, store, id, t) ==
  LET failed(err) == [err |-> err, accessToken |-> NoToken, refreshToken |-> NoToken,
                      store |-> store, nextId |-> id]
  IN IF ~(oldToken.jti \in DOMAIN store /\ store[oldToken.jti].valid)
     THEN failed("refresh_reused_or_revoked")
     ELSE IF jwtVerify(oldToken, e.JWT_REFRESH_SECRET, e.JWT_ISSUER, e.JWT_AUDIENCE, t) # "ok"
     THEN failed("invalid_refresh")
     ELSE IF oldToken.type # "refresh" THEN failed("invalid_refresh")
     ELSE LET issued == issueTokens(oldToken.sub, e,
                                    MapSet(store, oldToken.jti,
                                           [store[oldToken.jti] EXCEPT !.valid = FALSE]),
                                    id, t)
          IN [err |-> "", accessToken |-> issued.accessToken,
              refreshToken |-> issued.refreshToken,
              store |-> issued.store, nextId |-> issued.nextId]

\* rotateRefreshToken(oldToken): the error thrown ("" when none), the tokens
\* returned and the store after the call.
rotateRefreshToken(oldToken, e, store, id, t) ==
  LET failed(err) == [err |-> err, accessToken |-> NoToken, refreshToken |-> NoToken,
                      store |-> store, nextId |-> id]
  IN IF RotateVerify(oldToken, e, t) # "ok" THEN failed("invalid_refresh")
     ELSE IF ~RotateKindOk(oldToken) THEN failed("invalid_refresh")
     ELSE IF ~RecordUsable(store, oldToken.jti)
     THEN [failed(ReuseError) EXCEPT !.store = OnReuse(store, oldToken)]
     ELSE LET issued == issueTokens(RotateSubject(oldToken), e,
                                    RevokeOld(store, oldToken.jti), id, t)
          IN [err |-> "", accessToken |-> issued.accessToken,
              refreshToken |-> issued.refreshToken,
              store |-> issued.store, nextId |-> issued.nextId]

\* --------------------------------------------------------- authenticateJwt
\* An authenticateJwt without the type check.
AuthKindOk_Any(decoded) == TRUE

\* The type check of authenticateJwt on the verified payload.
AuthKindOk(decoded) == decoded.type = "access"

\* An authenticateJwt that accepts an access token only while the store
\* holds a valid record of its subject.
authenticateJwt_Ledger(token, e, t) ==
  IF /\ token # NoToken
     /\ token.sig = e.JWT_ACCESS_SECRET /\ t < token.exp
     /\ token.aud = e.JWT_AUDIENCE /\ token.iss = e.JWT_ISSUER
     /\ token.type = "access"
     /\ \E k \in DOMAIN refreshStore :
          refreshStore[k].sub = token.sub /\ refreshStore[k].valid
  THEN [status |-> 200, error |-> "", nextCalled |-> TRUE]
  ELSE [status |-> 401, error |-> "invalid_token", nextCalled |-> FALSE]

\* authenticateJwt(req, res, next): the response it sends, or next().
authenticateJwt(token, e, t) ==
  LET reject(error) == [status |-> 401, error |-> error, nextCalled |-> FALSE]
  IN IF token = NoToken THEN reject("missing_token")
     ELSE IF jwtVerify(token, e.JWT_ACCESS_SECRET, e.JWT_ISSUER, e.JWT_AUDIENCE, t) # "ok"
          THEN reject("invalid_token")
     ELSE IF ~AuthKindOk(token) THEN reject("invalid_token_type")
     ELSE [status |-> 200, error |-> "", nextCalled |-> TRUE]

\* An authenticateJwt that marks the presented credential as used.
AuthStore_Consume(store, token) ==
  [k \in DOMAIN store |-> IF k = token.jti THEN [store[k] EXCEPT !.valid = FALSE]
                                          ELSE store[k]]

\* The store after authenticateJwt: the function never touches refreshStore.
AuthStore(store, token) == store

\* ------------------------------------------------------------ revokeFamily
\* A revocation that leaves the flag as it is, and one that flips it.
RevokedRecord_Keep(rec) == rec
RevokedRecord_Toggle(rec) == [rec EXCEPT !.valid = ~rec.valid]

\* The record revokeFamily leaves for a record of the subject.
RevokedRecord(rec) == [rec EXCEPT !.valid = FALSE]

\* A revocation that does not compare the subject.
revokeFamily_All(store, subject) ==
  [k \in DOMAIN store |-> RevokedRecord(store[k])]

\* revokeFamily(subject): the store after the call.
revokeFamily(store, subject) ==
  [k \in DOMAIN store |-> IF store[k].sub = subject THEN RevokedRecord(store[k]) ELSE store[k]]

\* ------------------------------------------------------------------ inputs
\* What a caller can present besides the tokens this process returned:
\* tokens signed with this configuration's refresh secret by another
\* instance (an earlier run of the process, whose store is gone, and a
\* service with another issuer), and tokens made by someone who does not
\* hold the secrets, carrying the identifiers of the first login.
Foreign(e) ==
  LET claims(iss, jti, type, exp, sig) ==
        [sub |-> "app-1", iss |-> iss, aud |-> e.JWT_AUDIENCE, jti |-> jti,
         type |-> type, exp |-> exp, sig |-> sig]
  IN { claims(e.JWT_ISSUER, 0, "refresh", e.REFRESH_TOKEN_TTL, e.JWT_REFRESH_SECRET),
       claims("other-issuer", generateId(1, 1), "refresh", MaxTime + 1, e.JWT_REFRESH_SECRET),
       claims(e.JWT_ISSUER, generateId(1, 1), "refresh", MaxTime + 1, AttackerSecret),
       claims(e.JWT_ISSUER, generateId(1, 0), "access", MaxTime + 1, AttackerSecret) }

\* What can be presented to POST /auth/refresh, and to a protected route.
RefreshInputs == minted \cup {tok \in Foreign(env) : tok.type = "refresh"}
AccessInputs == minted \cup {tok \in Foreign(env) : tok.type = "access"} \cup {NoToken}

RefreshTokens == {tok \in minted : tok.type = "refresh"}

NoRequest == [tok |-> NoToken, rival |-> "idle"]

\* The outcome of a call, as the caller and the log see it.
\* It stands until the clock moves on. rival tells whether a request on the
\* same refresh id, in flight together with this one, succeeded.
Outcome(op, sub, tok, err, status, body, accessToken, refreshToken, nextCalled, rival) ==
  [op |-> op, sub |-> sub, tok |-> tok, err |-> err, status |-> status,
   body |-> body, accessToken |-> accessToken, refreshToken |-> refreshToken,
   nextCalled |-> nextCalled, rival |-> rival]

\* No rotateRefreshToken call is in progress.
Idle == [at |-> "idle", tok |-> NoToken, accessToken |-> NoToken, refreshToken |-> NoToken]

NoOutcome == Outcome("none", "", NoToken, "", 0, "", NoToken, NoToken, FALSE, "idle")

Mints == Cardinality(DOMAIN refreshStore) + Cardinality(DOMAIN peerStore)

Successes(jti) == IF jti \in DOMAIN rotatedOk THEN rotatedOk[jti] ELSE 0

\* ------------------------------------------------------------ config/env.ts
\* The options of AppEnv that getEnv() requires.
Options ==
  {"JWT_ACCESS_SECRET", "JWT_REFRESH_SECRET", "JWT_ISSUER", "JWT_AUDIENCE",
   "ACCESS_TOKEN_TTL", "REFRESH_TOKEN_TTL", "APP_ID", "APP_SECRET",
   "RPC_URL", "CHAIN_ID", "PRIVATE_KEY"}

\* The options issueTokens, rotateRefreshToken and authenticateJwt read.
JwtOptions ==
  {"JWT_ACCESS_SECRET", "JWT_REFRESH_SECRET", "JWT_ISSUER", "JWT_AUDIENCE",
   "ACCESS_TOKEN_TTL", "REFRESH_TOKEN_TTL"}

\* process.env[key] is undefined ("absent"), the empty string or a value.
EnvValues == {"absent", "", "set"}

\* A list of required options that leaves the audience out.
required_NoAudience ==
  <<"JWT_ACCESS_SECRET", "JWT_REFRESH_SECRET", "JWT_ISSUER",
    "ACCESS_TOKEN_TTL", "REFRESH_TOKEN_TTL", "APP_ID", "APP_SECRET",
    "RPC_URL", "CHAIN_ID", "PRIVATE_KEY">>

\* const required = [...]
required ==
  <<"JWT_ACCESS_SECRET", "JWT_REFRESH_SECRET", "JWT_ISSUER", "JWT_AUDIENCE",
    "ACCESS_TOKEN_TTL", "REFRESH_TOKEN_TTL", "APP_ID", "APP_SECRET",
    "RPC_URL", "CHAIN_ID", "PRIVATE_KEY">>

\* let cachedEnv: AppEnv | null = null
NullEnv == [key \in Options |-> "null"]

\* !env[key] || env[key] === ''
Missing(e, key) == e[key] = "absent" \/ e[key] = ""

\* A getEnv that reads process.env at every call.
getEnv_Reread(e, cached) ==
  LET missing == {i \in 1..Len(required) : Missing(e, required[i])}
      first == CHOOSE i \in missing : \A j \in missing : i <= j
  IN IF missing # {}
     THEN [threw |-> TRUE, key |-> required[first], value |-> NullEnv,
           cachedEnv |-> cached]
     ELSE [threw |-> FALSE, key |-> "", value |-> e, cachedEnv |-> e]

\* getEnv(): the cached configuration when there is one; else it throws on
\* the first missing required option, or caches and returns the options.
getEnv(e, cached) ==
  IF cached # NullEnv
  THEN [threw |-> FALSE, key |-> "", value |-> cached, cachedEnv |-> cached]
  ELSE LET missing == {i \in 1..Len(required) : Missing(e, required[i])}
           first == CHOOSE i \in missing : \A j \in missing : i <= j
       IN IF missing # {}
          THEN [threw |-> TRUE, key |-> required[first], value |-> NullEnv,
                cachedEnv |-> cached]
          ELSE [threw |-> FALSE, key |-> "", value |-> e, cachedEnv |-> e]

\* No handler has run yet.
NoCall == [op |-> "none", threw |-> FALSE, config |-> NullEnv]

\* --------------------------------------------------------------- HashStore
\* Addresses as ethers prints them: two spellings of one account, and
\* another account.
AddressTexts == {"0xAbC1", "0xabc1", "0xDeF2"}

\* String.prototype.toLowerCase on an address
toLowerCase(text) ==
  CASE text = "0xAbC1" -> "0xabc1"
    [] text = "0xabc1" -> "0xabc1"
    [] text = "0xDeF2" -> "0xdef2"

\* The hashes a client may send.
Hashes == {"h1", "h2"}

\* ethers.ZeroHash
ZeroHash == "0x00"

\* The value of an unwritten slot of the _records mapping.
NoRecord == [exists |-> FALSE, metadataRoot |-> ZeroHash, timestamp |-> 0]

\* No transaction was sent.
NoTx == [fn |-> "none", sender |-> "", reverted |-> FALSE]

\* A transaction of sender that called fn.
Tx(fn, sender, reverted) == [fn |-> fn, sender |-> sender, reverted |-> reverted]

\* A modifier that lets every sender pass.
onlyOwner_Anyone(ownerAddress, sender) == TRUE

\* Ownable.onlyOwner: the call reverts unless msg.sender is the owner.
onlyOwner(ownerAddress, sender) == sender = ownerAddress

\* _records[hashValue] = HashRecord({exists: true, metadataRoot, timestamp})
Stored(recs, hashValue, metadataRoot, timestamp) ==
  [recs EXCEPT ![hashValue] =
     [exists |-> TRUE, metadataRoot |-> metadataRoot, timestamp |-> timestamp]]

\* event HashStored(address indexed owner, bytes32 indexed hashValue,
\* bytes32 metadataRoot, uint256 timestamp)
HashStored(sender, hashValue, metadataRoot, timestamp) ==
  [owner |-> sender, hashValue |-> hashValue, metadataRoot |-> metadataRoot,
   timestamp |-> timestamp]

\* function store(bytes32 hashValue, bytes32 metadataRoot) external onlyOwner.
\* A reverted call leaves the storage as it was and emits nothing.
store(recs, ownerAddress, sender, hashValue, metadataRoot, timestamp) ==
  IF ~onlyOwner(ownerAddress, sender)
  THEN [reverted |-> TRUE, records |-> recs, events |-> <<>>]
  ELSE [reverted |-> FALSE,
        records |-> Stored(recs, hashValue, metadataRoot, timestamp),
        events |-> <<HashStored(sender, hashValue, metadataRoot, timestamp)>>]

\* The loop of storeBatch, from index i on.
RECURSIVE StoreFrom(_, _, _, _, _)
StoreFrom(recs, hashes, metadataRoots, timestamp, i) ==
  IF i > Len(hashes) THEN recs
  ELSE StoreFrom(Stored(recs, hashes[i], metadataRoots[i], timestamp),
                 hashes, metadataRoots, timestamp, i + 1)

\* A storeBatch without the require, which stores the pairs there are.
storeBatch_NoRequire(recs, ownerAddress, sender, hashes, metadataRoots, timestamp) ==
  LET len == IF Len(hashes) < Len(metadataRoots) THEN Len(hashes) ELSE Len(metadataRoots)
  IN IF ~onlyOwner(ownerAddress, sender)
     THEN [reverted |-> TRUE, records |-> recs, events |-> <<>>]
     ELSE [reverted |-> FALSE,
           records |-> StoreFrom(recs, SubSeq(hashes, 1, len), metadataRoots, timestamp, 1),
           events |-> [i \in 1..len |->
                         HashStored(sender, hashes[i], metadataRoots[i], timestamp)]]

\* function storeBatch(bytes32[] hashes, bytes32[] metadataRoots) external
\* onlyOwner, with require(hashes.length == metadataRoots.length): one
\* record and one event per index.
storeBatch(recs, ownerAddress, sender, hashes, metadataRoots, timestamp) ==
  IF ~onlyOwner(ownerAddress, sender) \/ Len(hashes) # Len(metadataRoots)
  THEN [reverted |-> TRUE, records |-> recs, events |-> <<>>]
  ELSE [reverted |-> FALSE,
        records |-> StoreFrom(recs, hashes, metadataRoots, timestamp, 1),
        events |-> [i \in 1..Len(hashes) |->
                      HashStored(sender, hashes[i], metadataRoots[i], timestamp)]]

\* ------------------------------------------------------ routes/blockchain.ts
\* A JSON value: a string, a number (text holds its digits), null, an
\* array or an object. An object is the sequence of its entries in
\* insertion order, its keys differing from each other; an array is the
\* sequence of its items.
Str(text) == [type |-> "string", text |-> text, entries |-> <<>>]
Num(text) == [type |-> "number", text |-> text, entries |-> <<>>]
Null == [type |-> "null", text |-> "null", entries |-> <<>>]
Undefined == [type |-> "undefined", text |-> "undefined", entries |-> <<>>]
Obj(entries) == [type |-> "object", text |-> "", entries |-> entries]
Arr(items) == [type |-> "array", text |-> "", entries |-> items]
Entry(key, value) == [key |-> key, value |-> value]

\* The metadata object with the string a under "a" and b under "b", a key
\* being left out when its value is "undefined".
Metadata(a, b) ==
  (IF a = "undefined" THEN <<>> ELSE <<Entry("a", Str(a))>>)
    \o (IF b = "undefined" THEN <<>> ELSE <<Entry("b", Str(b))>>)
NoMetadata == Metadata("undefined", "undefined")
Meta1 == Metadata("1", "undefined")
Meta2 == Metadata("2", "undefined")

\* ethers.sha256 of the encoded string, taken as free of collisions.
sha256(text) == "sha256(" \o text \o ")"

\* The keys of the metadata objects, in the order of their UTF-16 code
\* units, which is the order of Array.prototype.sort().
KeyOrder == <<"a", "b", "x", "y">>
Rank(key) == CHOOSE i \in 1..Len(KeyOrder) : KeyOrder[i] = key

\* Object.keys(metadata)
ObjectKeys(metadata) == [i \in 1..Len(metadata) |-> metadata[i].key]

\* A sort that leaves the keys in the order of the object.
sort_Keep(keys) == keys

\* keys.sort()
RECURSIVE sort(_)
sort(keys) ==
  IF keys = <<>> THEN <<>>
  ELSE LET m == CHOOSE i \in 1..Len(keys) :
                  \A j \in 1..Len(keys) : Rank(keys[i]) <= Rank(keys[j])
       IN <<keys[m]>> \o sort(SubSeq(keys, 1, m - 1) \o SubSeq(keys, m + 1, Len(keys)))

\* metadata[key]
Get(metadata, key) ==
  metadata[CHOOSE i \in 1..Len(metadata) : metadata[i].key = key].value

\* texts.join(separator)
RECURSIVE join(_, _)
join(texts, separator) ==
  IF texts = <<>> THEN ""
  ELSE IF Len(texts) = 1 THEN texts[1]
  ELSE texts[1] \o separator \o join(Tail(texts), separator)

\* String(value) of a string or a number
String(value) == value.text

\* JSON.stringify(value) of a value whose members are strings, numbers
\* and null: a string in quotes, an object with its entries in insertion
\* order, an array with its items.
JSONstringify(value) ==
  LET primitive(v) == IF v.type = "string" THEN "\"" \o v.text \o "\"" ELSE v.text
  IN IF value.type = "object"
     THEN "{" \o join([i \in 1..Len(value.entries) |->
                         "\"" \o value.entries[i].key \o "\":"
                           \o primitive(value.entries[i].value)], ",") \o "}"
     ELSE IF value.type = "array"
     THEN "[" \o join([i \in 1..Len(value.entries) |-> primitive(value.entries[i])], ",")
              \o "]"
     ELSE primitive(value)

\* typeof value === 'object' && value !== null ? JSON.stringify(value)
\* : String(value)
stringValue(value) ==
  IF value.type \in {"object", "array"} THEN JSONstringify(value) ELSE String(value)

\* sortedEntries.join('|'): the `${key}:${stringValue}` of the sorted keys
canonical(metadata) ==
  LET sortedKeys == sort(ObjectKeys(metadata))
  IN join([i \in 1..Len(sortedKeys) |->
             sortedKeys[i] \o ":" \o stringValue(Get(metadata, sortedKeys[i]))], "|")

\* computeMetadataRoot(metadata): the sha256 of the sorted key:value
\* entries joined with '|'.
computeMetadataRoot(metadata) == sha256(canonical(metadata))

\* A body of POST /blockchain/write. wellTyped is false for a body that
\* writeSchema rejects; hash is "" when the field is absent.
WriteBody(wellTyped, hash, hasMetadata, metadata, hashes, hasMetadatas, metadatas) ==
  [wellTyped |-> wellTyped, hash |-> hash, hasMetadata |-> hasMetadata,
   metadata |-> metadata, hashes |-> hashes, hasMetadatas |-> hasMetadatas,
   metadatas |-> metadatas]

WriteBodies ==
  { WriteBody(FALSE, "", FALSE, NoMetadata, <<>>, FALSE, <<>>),
    WriteBody(TRUE, "", FALSE, NoMetadata, <<>>, FALSE, <<>>),
    WriteBody(TRUE, "h1", FALSE, NoMetadata, <<>>, FALSE, <<>>),
    WriteBody(TRUE, "h1", TRUE, Meta1, <<>>, FALSE, <<>>),
    WriteBody(TRUE, "not-bytes32", FALSE, NoMetadata, <<>>, FALSE, <<>>),
    WriteBody(TRUE, "", FALSE, NoMetadata, <<"h1", "h2">>, FALSE, <<>>),
    WriteBody(TRUE, "", FALSE, NoMetadata, <<"h1", "h2">>, TRUE, <<Meta1>>),
    WriteBody(TRUE, "", FALSE, NoMetadata, <<"h2", "h2">>, TRUE, <<NoMetadata, Meta1>>),
    WriteBody(TRUE, "h2", FALSE, NoMetadata, <<"h1">>, FALSE, <<>>),
    WriteBody(TRUE, "h1", TRUE, Meta1, <<"h1", "h2">>, TRUE, <<>>) }

\* A check that lets every signer pass.
IsOwner_Skip(ownerText, signerText) == TRUE

\* The negation of: owner.toLowerCase() !== signer.toLowerCase()
IsOwner(ownerText, signerText) == toLowerCase(ownerText) = toLowerCase(signerText)

\* The response of the write handler, the transaction it sent and the
\* storage of the contract afterwards.
\* asked tells whether getOwnerAddress() was called.
WriteResult(status, error, asked, sent, events, recs) ==
  [status |-> status, error |-> error, asked |-> asked, tx |-> sent,
   events |-> events, records |-> recs]

\* A handler without the check that an operation is given.
NoOperation_Off(isSingle, isBatch) == FALSE

\* !isSingle && !isBatch
NoOperation(isSingle, isBatch) == ~isSingle /\ ~isBatch

\* metadatas.map(md => md ? computeMetadataRoot(md) : ethers.ZeroHash), or
\* hashes.map(() => ethers.ZeroHash) without a metadatas array
metadataRoots(body) ==
  [i \in 1..Len(body.hashes) |->
     IF body.hasMetadatas THEN computeMetadataRoot(body.metadatas[i]) ELSE ZeroHash]

\* The handler of POST /blockchain/write behind authenticateJwt. The
\* contract address is configured; ethers refuses to encode a hash that is
\* not a bytes32 and a reverted transaction throws, both ending in 500.
writeRoute(body, ownerText, signerText, recs, timestamp) ==
  LET isSingle == body.hash # ""
      isBatch == Len(body.hashes) > 0
      sender == toLowerCase(signerText)
      ownerAddress == toLowerCase(ownerText)
      metadataRoot == IF body.hasMetadata THEN computeMetadataRoot(body.metadata)
                      ELSE ZeroHash
      single == store(recs, ownerAddress, sender, body.hash, metadataRoot, timestamp)
      batch == storeBatch(recs, ownerAddress, sender, body.hashes,
                          metadataRoots(body), timestamp)
  IN IF ~body.wellTyped THEN WriteResult(400, "invalid_input", FALSE, NoTx, <<>>, recs)
     ELSE IF isBatch /\ body.hasMetadatas /\ Len(body.metadatas) # Len(body.hashes)
     THEN WriteResult(400, "invalid_operation", FALSE, NoTx, <<>>, recs)
     ELSE IF NoOperation(isSingle, isBatch)
     THEN WriteResult(400, "invalid_operation", FALSE, NoTx, <<>>, recs)
     ELSE IF ~IsOwner(ownerText, signerText) THEN WriteResult(403, "not_owner", TRUE, NoTx, <<>>, recs)
     ELSE IF isSingle
     THEN IF body.hash \notin Hashes THEN WriteResult(500, "write_failed", TRUE, NoTx, <<>>, recs)
          ELSE IF single.reverted
          THEN WriteResult(500, "write_failed", TRUE, Tx("store", sender, TRUE), <<>>, recs)
          ELSE WriteResult(200, "", TRUE, Tx("store", sender, FALSE), single.events, single.records)
     ELSE IF batch.reverted
          THEN WriteResult(500, "write_failed", TRUE, Tx("storeBatch", sender, TRUE), <<>>, recs)
          ELSE WriteResult(200, "", TRUE, Tx("storeBatch", sender, FALSE),
                           batch.events, batch.records)

\* A query of GET /blockchain/verify: hasHash is false without a hash
\* parameter; metadata is "" when absent, else a JSON text.
VerifyQueries ==
  [hasHash : {TRUE}, hash : Hashes, metadata : {"", "json-1", "json-2", "not-json"}]
    \cup {[hasHash |-> FALSE, hash |-> "", metadata |-> ""],
          [hasHash |-> TRUE, hash |-> "not-bytes32", metadata |-> ""]}

\* JSON.parse on the texts of the queries
JSONparse(text) == IF text = "json-1" THEN Meta1 ELSE Meta2

\* A handler that looks at the existence of the hash alone.
verifyRoute_ExistsOnly(query, recs) ==
  IF ~query.hasHash THEN [status |-> 400, body |-> "invalid_input"]
  ELSE IF query.hash \notin Hashes THEN [status |-> 500, body |-> "verification_failed"]
  ELSE IF ~recs[query.hash].exists THEN [status |-> 200, body |-> "hash_not_found"]
  ELSE [status |-> 200, body |-> "verified"]

\* The handler of GET /blockchain/verify behind authenticateJwt (the diffs
\* of the metadata_changed response are left out). ethers refuses to encode
\* a hash that is not a bytes32, which ends in 500.
verifyRoute(query, recs) ==
  IF ~query.hasHash THEN [status |-> 400, body |-> "invalid_input"]
  ELSE IF query.hash \notin Hashes THEN [status |-> 500, body |-> "verification_failed"]
  ELSE IF ~recs[query.hash].exists THEN [status |-> 200, body |-> "hash_not_found"]
  ELSE IF query.metadata = "" THEN [status |-> 200, body |-> "verified"]
  ELSE IF query.metadata = "not-json" THEN [status |-> 400, body |-> "invalid_metadata_json"]
  ELSE IF computeMetadataRoot(JSONparse(query.metadata)) = recs[query.hash].metadataRoot
  THEN [status |-> 200, body |-> "verified"]
  ELSE [status |-> 200, body |-> "metadata_changed"]

\* A route that is registered without the middleware.
HandlerRuns_Always(a) == TRUE

\* router.post('/write', authenticateJwt, handler): Express runs the
\* handler when the middleware has called next().
HandlerRuns(a) == a.nextCalled

\* ----------------------------------------------------------------- actions
AuthInit ==
  /\ env \in Envs
  /\ refreshStore = [k \in {} |-> RefreshRecord(0, "", 0, FALSE, 0)]
  /\ nextId = 1
  /\ now = 0
  /\ minted = {}
  /\ pending = [c \in Clients |-> NoRequest]
  /\ rotatedOk = [k \in {} |-> 0]
  /\ revokedIds = {}
  /\ last = NoOutcome
  /\ parent = [k \in {} |-> 0]
  /\ pc = Idle

\* No second instance has minted or revoked anything.
Alone ==
  /\ peerStore = [k \in {} |-> RefreshRecord(0, "", 0, FALSE, 0)]
  /\ peerRevoked = {}

\* No commitment has been computed.
NoRoots ==
  /\ written = <<>> /\ writtenRoot = "none"
  /\ presented = <<>> /\ presentedRoot = "none"

\* No client is connected and no signal has arrived.
Serving ==
  /\ conns = 0
  /\ timers = {}
  /\ exitCode = -1

\* deepDiff has not been called.
NoDiff ==
  /\ before = Undefined
  /\ after = Undefined
  /\ diffs = <<>>

\* The state of what surrounds the auth functions, before anything ran.
ExtInit == Alone /\ NoRoots /\ Serving /\ NoDiff

\* index.ts has loaded with every option set, and listens.
BootDone ==
  /\ environ = [key \in Options |-> "set"]
  /\ cachedEnv = environ
  /\ phase = "listening"
  /\ served = NoCall

\* The deployed HashStore, without a record yet.
Deployed ==
  /\ owner = "0xAbC1"
  /\ records = [h \in Hashes |-> NoRecord]
  /\ tx = NoTx
  /\ emitted = <<>>

Init ==
  /\ AuthInit
  /\ BootDone
  /\ Deployed /\ signer = owner
  /\ ExtInit

\* POST /auth/token with the right appid and appsecret: issueTokens(subject).
\* The subjects are interchangeable: the first login is app-1's.
Issue(subject) ==
  /\ Mints < MaxMints
  /\ subject = "app-2" => \E k \in DOMAIN refreshStore : refreshStore[k].sub = "app-1"
  /\ LET issued == issueTokens(subject, env, refreshStore, nextId, now)
     IN /\ refreshStore' = issued.store
        /\ nextId' = issued.nextId
        /\ minted' = minted \cup {issued.accessToken, issued.refreshToken}
        /\ parent' = MapSet(parent, issued.refreshToken.jti, 0)
        /\ last' = Outcome("issue", subject, NoToken, "", 200, "tokens",
                           issued.accessToken, issued.refreshToken, FALSE, "idle")
  /\ UNCHANGED <<env, now, pending, rotatedOk, revokedIds, pc>>
  /\ UNCHANGED <<bootVars, chainVars, extVars>>

\* A handler that passes the message of the caught error on.
RefreshResponse_Leak(err) ==
  IF err = "" THEN [status |-> 200, body |-> "tokens"] ELSE [status |-> 401, body |-> err]

\* res.json({accessToken, refreshToken}), or in the catch clause
\* res.status(401).json({error: 'invalid_refresh'}).
RefreshResponse(err) ==
  IF err = "" THEN [status |-> 200, body |-> "tokens"]
  ELSE [status |-> 401, body |-> "invalid_refresh"]

\* The POST /auth/refresh handler on a presented token: rotateRefreshToken
\* and the response (every error is answered 401 invalid_refresh).
HandleRefresh(tok, rival) ==
  LET r == rotateRefreshToken(tok, env, refreshStore, nextId, now)
      ok == r.err = ""
  IN /\ ok => Mints < MaxMints
     /\ refreshStore' = r.store
     /\ nextId' = r.nextId
     /\ minted' = IF ok THEN minted \cup {r.accessToken, r.refreshToken} ELSE minted
     /\ rotatedOk' = IF ok THEN MapSet(rotatedOk, tok.jti, Successes(tok.jti) + 1) ELSE rotatedOk
     /\ parent' = IF ok THEN MapSet(parent, r.refreshToken.jti, tok.jti) ELSE parent
     /\ last' = Outcome("rotate", tok.sub, tok, r.err,
                        RefreshResponse(r.err).status, RefreshResponse(r.err).body,
                        r.accessToken, r.refreshToken, FALSE, rival)
     /\ UNCHANGED <<env, now, revokedIds, pc>>
     /\ UNCHANGED <<bootVars, chainVars, extVars>>

\* A refresh request is received and handled at once.
Rotate(tok) ==
  /\ HandleRefresh(tok, "none")
  /\ UNCHANGED pending

\* A POST /auth/refresh request carrying a token this process returned
\* arrives on a connection and waits for its handler.
Receive(client, tok) ==
  /\ pending[client] = NoRequest
  /\ client = "c2" => pending["c1"] # NoRequest
  /\ pending' = [pending EXCEPT ![client] = [tok |-> tok, rival |-> "none"]]
  /\ UNCHANGED <<env, refreshStore, nextId, now, minted, rotatedOk, revokedIds, last, parent, pc>>
  /\ UNCHANGED <<bootVars, chainVars, extVars>>

\* The handler runs on a request in flight. A request on the same refresh
\* id that is still in flight learns that its rival succeeded.
Refresh(client) ==
  /\ pending[client] # NoRequest
  /\ HandleRefresh(pending[client].tok, pending[client].rival)
  /\ pending' = [c \in Clients |->
                   IF c = client THEN NoRequest
                   ELSE IF pending[c] # NoRequest
                           /\ pending[c].tok.jti = pending[client].tok.jti
                           /\ last'.err = ""
                        THEN [pending[c] EXCEPT !.rival = "won"]
                        ELSE pending[c]]

\* A request to a protected route passes through authenticateJwt.
Authenticate(tok) ==
  /\ LET a == authenticateJwt(tok, env, now)
     IN last' = Outcome("authenticate", tok.sub, tok, a.error, a.status, a.error,
                        NoToken, NoToken, a.nextCalled, "idle")
  /\ refreshStore' = AuthStore(refreshStore, tok)
  /\ UNCHANGED <<env, nextId, now, minted, pending, rotatedOk, revokedIds, parent, pc>>
  /\ UNCHANGED <<bootVars, chainVars, extVars>>

\* revokeFamily(subject)
Revoke(subject) ==
  /\ refreshStore' = revokeFamily(refreshStore, subject)
  /\ revokedIds' = revokedIds \cup {tok.jti : tok \in {m \in RefreshTokens : m.sub = subject}}
  /\ last' = Outcome("revoke", subject, NoToken, "", 0, "", NoToken, NoToken, FALSE, "idle")
  /\ UNCHANGED <<env, nextId, now, minted, pending, rotatedOk, parent, pc>>
  /\ UNCHANGED <<bootVars, chainVars, extVars>>

\* A second passes. The clock is followed from the first login on.
Tick ==
  /\ now < MaxTime
  /\ minted # {}
  /\ now' = now + 1
  /\ last' = NoOutcome
  /\ UNCHANGED <<env, refreshStore, nextId, minted, pending, rotatedOk, revokedIds, parent, pc>>
  /\ UNCHANGED <<bootVars, chainVars, extVars>>

Next ==
  \/ \E subject \in Subjects : Issue(subject)
  \/ \E tok \in RefreshInputs : Rotate(tok)
  \/ \E tok \in AccessInputs : Authenticate(tok)
  \/ \E subject \in Subjects : Revoke(subject)
  \/ Tick

Spec == Init /\ [][Next]_vars

\* The process with refresh requests in flight, for one subject.
NextRace ==
  \/ Issue("app-1")
  \/ \E client \in Clients, tok \in RefreshTokens : Receive(client, tok)
  \/ \E client \in Clients : Refresh(client)
  \/ Revoke("app-1")
  \/ Tick

SpecRace == Init /\ [][NextRace]_vars

\* ------------------------------------ rotateRefreshToken, by statement
\* A rotation that mints the replacement before it invalidates the old record.
RotateOrder_MintFirst == <<"issue", "revoke">>

\* The statements of rotateRefreshToken after its checks, in program order:
\* "Revoke old", then "Issue new".
RotateOrder == <<"revoke", "issue">>

\* A rotation that awaits between its statements.
RotateYields_Await == TRUE

\* export function rotateRefreshToken is not async and awaits nothing: no
\* other handler runs before it returns.
RotateYields == FALSE

\* No call is in progress, or the call in progress has yielded.
Quiet == pc = Idle \/ RotateYields

\* rotateRefreshToken is called: its checks run. A failing call ends here,
\* as in HandleRefresh; a passing one goes on to its statements.
Enter(tok) ==
  LET r == rotateRefreshToken(tok, env, refreshStore, nextId, now)
  IN /\ pc = Idle
     /\ IF r.err # ""
        THEN /\ refreshStore' = r.store
             /\ last' = Outcome("rotate", tok.sub, tok, r.err,
                                RefreshResponse(r.err).status, RefreshResponse(r.err).body,
                                NoToken, NoToken, FALSE, "none")
             /\ pc' = pc
        ELSE /\ Mints < MaxMints
             /\ pc' = [Idle EXCEPT !.at = "first", !.tok = tok]
             /\ UNCHANGED <<refreshStore, last>>
     /\ UNCHANGED <<env, nextId, now, minted, pending, rotatedOk, revokedIds, parent>>
     /\ UNCHANGED <<bootVars, chainVars, extVars>>

\* The call in progress runs its next statement, and returns after the
\* second one.
RotateStep ==
  LET name == RotateOrder[IF pc.at = "first" THEN 1 ELSE 2]
      issued == issueTokens(RotateSubject(pc.tok), env, refreshStore, nextId, now)
      stepped == IF name = "issue"
                 THEN [pc EXCEPT !.accessToken = issued.accessToken,
                                 !.refreshToken = issued.refreshToken]
                 ELSE pc
  IN /\ pc.at \in {"first", "second"}
     /\ IF name = "revoke"
        THEN /\ refreshStore' = RevokeOld(refreshStore, pc.tok.jti)
             /\ UNCHANGED <<nextId, parent>>
        ELSE /\ refreshStore' = issued.store
             /\ nextId' = issued.nextId
             /\ parent' = MapSet(parent, issued.refreshToken.jti, pc.tok.jti)
     /\ IF pc.at = "first"
        THEN /\ pc' = [stepped EXCEPT !.at = "second"]
             /\ UNCHANGED <<minted, rotatedOk, last>>
        ELSE /\ pc' = Idle
             /\ minted' = minted \cup {stepped.accessToken, stepped.refreshToken}
             /\ rotatedOk' = MapSet(rotatedOk, pc.tok.jti, Successes(pc.tok.jti) + 1)
             /\ last' = Outcome("rotate", pc.tok.sub, pc.tok, "",
                                RefreshResponse("").status, RefreshResponse("").body,
                                stepped.accessToken, stepped.refreshToken, FALSE, "none")
     /\ UNCHANGED <<env, now, pending, revokedIds>>
     /\ UNCHANGED <<bootVars, chainVars, extVars>>

\* The process for one subject, with rotateRefreshToken run statement by
\* statement; the clock may advance between two statements.
NextSteps ==
  \/ Quiet /\ Issue("app-1")
  \/ \E tok \in RefreshInputs : Enter(tok)
  \/ RotateStep
  \/ Quiet /\ Revoke("app-1")
  \/ Tick

SpecSteps == Init /\ [][NextSteps]_vars

\* ------------------------------------------------- two instances
\* The Map an instance reads and writes is the refreshStore of its own
\* module: a second process has a second Map.
InstanceStore_Shared(own, other) == other

InstanceStore(own, other) == own

\* issueTokens(subject) at the second instance. The secrets, issuer and
\* audience are those of the first; randomBytes(16) gives an id that no
\* instance has used.
PeerIssue(subject) ==
  /\ Mints < MaxMints
  /\ LET issued == issueTokens(subject, env, InstanceStore(peerStore, refreshStore),
                               nextId, now)
     IN /\ peerStore' = issued.store
        /\ nextId' = issued.nextId
        /\ minted' = minted \cup {issued.accessToken, issued.refreshToken}
        /\ parent' = MapSet(parent, issued.refreshToken.jti, 0)
        /\ last' = Outcome("peer-issue", subject, NoToken, "", 200, "tokens",
                           issued.accessToken, issued.refreshToken, FALSE, "idle")
  /\ UNCHANGED <<env, refreshStore, now, pending, rotatedOk, revokedIds, pc, peerRevoked, rootVars, downVars, diffVars>>
  /\ UNCHANGED <<bootVars, chainVars>>

\* POST /auth/refresh at the second instance.
PeerRotate(tok) ==
  LET r == rotateRefreshToken(tok, env, InstanceStore(peerStore, refreshStore),
                              nextId, now)
      ok == r.err = ""
  IN /\ ok => Mints < MaxMints
     /\ peerStore' = r.store
     /\ nextId' = r.nextId
     /\ minted' = IF ok THEN minted \cup {r.accessToken, r.refreshToken} ELSE minted
     /\ rotatedOk' = IF ok THEN MapSet(rotatedOk, tok.jti, Successes(tok.jti) + 1) ELSE rotatedOk
     /\ parent' = IF ok THEN MapSet(parent, r.refreshToken.jti, tok.jti) ELSE parent
     /\ last' = Outcome("peer-rotate", tok.sub, tok, r.err,
                        RefreshResponse(r.err).status, RefreshResponse(r.err).body,
                        r.accessToken, r.refreshToken, FALSE, "none")
     /\ UNCHANGED <<env, refreshStore, now, pending, revokedIds, pc, peerRevoked, rootVars, downVars, diffVars>>
     /\ UNCHANGED <<bootVars, chainVars>>

\* revokeFamily(subject) at the second instance.
PeerRevoke(subject) ==
  /\ peerStore' = revokeFamily(InstanceStore(peerStore, refreshStore), subject)
  /\ peerRevoked' = peerRevoked \cup {k \in DOMAIN peerStore : peerStore[k].sub = subject}
  /\ last' = Outcome("peer-revoke", subject, NoToken, "", 0, "", NoToken, NoToken, FALSE, "idle")
  /\ UNCHANGED <<env, refreshStore, nextId, now, minted, pending, rotatedOk, revokedIds,
                 parent, pc, rootVars, downVars, diffVars>>
  /\ UNCHANGED <<bootVars, chainVars>>

\* The callers present the refresh tokens they were given to either
\* instance.
NextTwin ==
  \/ Issue("app-1")
  \/ PeerIssue("app-1")
  \/ \E tok \in RefreshTokens : Rotate(tok)
  \/ \E tok \in RefreshTokens : PeerRotate(tok)
  \/ Revoke("app-1")
  \/ PeerRevoke("app-1")
  \/ Tick

SpecTwin == Init /\ [][NextTwin]_vars

\* ------------------------------------------------------- POST /auth/token
\* The appid and appsecret fields a caller may send.
AppIds == {"ab", "app-1", "app-2"}
AppSecrets == {"short", "app-1-secret", "app-2-secret"}

\* tokenSchema: appid: z.string().min(3), appsecret: z.string().min(8)
tokenSchema(appid, appsecret) == Len(appid) >= 3 /\ Len(appsecret) >= 8

\* A comparison that stops at the identifier.
CredentialsOk_IdOnly(appid, appsecret, e) == appid = e.APP_ID

\* The negation of: appid !== env.APP_ID || appsecret !== env.APP_SECRET
CredentialsOk(appid, appsecret, e) == appid = e.APP_ID /\ appsecret = e.APP_SECRET

\* The POST /auth/token handler: 400 on a body the schema rejects, 401 on
\* other credentials than the configured ones, else issueTokens(appid).
Login(appid, appsecret) ==
  IF ~tokenSchema(appid, appsecret)
  THEN /\ last' = Outcome("login", appid, NoToken, "invalid_input", 400, "invalid_input",
                          NoToken, NoToken, FALSE, "idle")
       /\ UNCHANGED <<env, refreshStore, nextId, now, minted, pending, rotatedOk, revokedIds, parent, pc>>
       /\ UNCHANGED <<bootVars, chainVars, extVars>>
  ELSE IF ~CredentialsOk(appid, appsecret, env)
  THEN /\ last' = Outcome("login", appid, NoToken, "invalid_credentials", 401,
                          "invalid_credentials", NoToken, NoToken, FALSE, "idle")
       /\ UNCHANGED <<env, refreshStore, nextId, now, minted, pending, rotatedOk, revokedIds, parent, pc>>
       /\ UNCHANGED <<bootVars, chainVars, extVars>>
  ELSE /\ Mints < MaxMints
       /\ LET issued == issueTokens(appid, env, refreshStore, nextId, now)
          IN /\ refreshStore' = issued.store
             /\ nextId' = issued.nextId
             /\ minted' = minted \cup {issued.accessToken, issued.refreshToken}
             /\ parent' = MapSet(parent, issued.refreshToken.jti, 0)
             /\ last' = Outcome("login", appid, NoToken, "", 200, "tokens",
                                issued.accessToken, issued.refreshToken, FALSE, "idle")
       /\ UNCHANGED <<env, now, pending, rotatedOk, revokedIds, pc>>
       /\ UNCHANGED <<bootVars, chainVars, extVars>>

\* The process under calls of POST /auth/token.
NextLogin ==
  \/ \E appid \in AppIds, appsecret \in AppSecrets : Login(appid, appsecret)
  \/ Tick

SpecLogin == Init /\ [][NextLogin]_vars

\* ------------------------------------------------------------- index.ts
\* The functions of auth/jwt.ts, each of which starts with getEnv().
Handlers == {"issueTokens", "rotateRefreshToken", "authenticateJwt"}

\* const { PORT } = getEnv(); const server = app.listen(PORT, ...): an
\* exception of getEnv() ends the process before app.listen is reached.
Load ==
  /\ phase = "loading"
  /\ LET r == getEnv(environ, cachedEnv)
     IN /\ cachedEnv' = r.cachedEnv
        /\ phase' = IF r.threw THEN "exited" ELSE "listening"
  /\ UNCHANGED <<environ, served>>
  /\ UNCHANGED <<authVars, chainVars, extVars>>

\* A request reaches a function of auth/jwt.ts, which calls getEnv().
Handle(op) ==
  /\ phase = "listening"
  /\ LET r == getEnv(environ, cachedEnv)
     IN /\ cachedEnv' = r.cachedEnv
        /\ served' = [op |-> op, threw |-> r.threw, config |-> r.value]
  /\ UNCHANGED <<environ, phase>>
  /\ UNCHANGED <<authVars, chainVars, extVars>>

\* The process is started in an environment where at most two of the
\* options are absent or empty.
InitBoot ==
  /\ AuthInit
  /\ environ \in {e \in [Options -> EnvValues] :
                    Cardinality({key \in Options : e[key] # "set"}) <= 2}
  /\ cachedEnv = NullEnv
  /\ phase = "loading"
  /\ served = NoCall
  /\ Deployed /\ signer = owner
  /\ ExtInit

NextBoot ==
  \/ Load
  \/ \E op \in Handlers : Handle(op)

SpecBoot == InitBoot /\ [][NextBoot]_vars

\* ------------------------------------------- process.env after the start
\* What an assignment to process.env[key], or a delete, leaves there.
Assigned == EnvValues \cup {"changed"}

\* The options of process.env that differ from the value the process was
\* started with.
Unusual(e) == {key \in Options : e[key] # "set"}

\* Code of the running process assigns or deletes process.env[key], one of
\* the options the auth functions read.
SetEnv(key, value) ==
  /\ phase = "listening"
  /\ value # environ[key]
  /\ environ' = [environ EXCEPT ![key] = value]
  /\ Cardinality(Unusual(environ')) <= 2
  /\ UNCHANGED <<cachedEnv, phase, served>>
  /\ UNCHANGED <<authVars, chainVars, extVars>>

NextConfig ==
  \/ Load
  \/ \E op \in Handlers : Handle(op)
  \/ \E key \in JwtOptions, value \in Assigned : SetEnv(key, value)

SpecConfig == InitBoot /\ [][NextConfig]_vars

\* ------------------------------------------------ computeMetadataRoot
\* The values of the metadata fields: strings, a number, and an object in
\* the two orders of its keys.
MetaValues ==
  { Str("1"), Num("1"), Str("2"), Str("1|b:2"),
    Obj(<<Entry("x", Str("1")), Entry("y", Str("2"))>>),
    Obj(<<Entry("y", Str("2")), Entry("x", Str("1"))>>) }

\* The metadata objects over the keys "a" and "b", in either order.
MetaObjects ==
  {<<>>}
    \cup {<<Entry(k, v)>> : k \in {"a", "b"}, v \in MetaValues}
    \cup {<<Entry(k[1], v), Entry(k[2], w)>> :
            k \in {<<"a", "b">>, <<"b", "a">>}, v \in MetaValues, w \in MetaValues}

\* POST /blockchain/write with a metadata object: the handler computes the
\* commitment it stores.
Commit(metadata) ==
  /\ writtenRoot = "none"
  /\ written' = metadata
  /\ writtenRoot' = computeMetadataRoot(metadata)
  /\ UNCHANGED <<presented, presentedRoot>>
  /\ UNCHANGED <<authVars, bootVars, chainVars, twinVars, downVars, diffVars>>

\* GET /blockchain/verify with a metadata object: the handler computes the
\* commitment it compares with the stored one.
Recompute(metadata) ==
  /\ writtenRoot # "none"
  /\ presented' = metadata
  /\ presentedRoot' = computeMetadataRoot(metadata)
  /\ UNCHANGED <<written, writtenRoot>>
  /\ UNCHANGED <<authVars, bootVars, chainVars, twinVars, downVars, diffVars>>

NextRoot ==
  \/ \E metadata \in MetaObjects : Commit(metadata)
  \/ \E metadata \in MetaObjects : Recompute(metadata)

SpecRoot == Init /\ [][NextRoot]_vars

\* ------------------------------------------------------------ shutdown
\* setTimeout(..., 10000): the delay of the forced exit, in seconds.
ForceAfter == 10

\* The connections a client side keeps open at once.
MaxConns == 2

\* A shutdown that sets no timer.
Armed_Never(running) == running

\* setTimeout(() => process.exit(1), 10000).unref(): one more timer.
Armed(running) == running \cup {ForceAfter}

\* A client connects to the listening server.
Connect ==
  /\ phase = "listening"
  /\ conns < MaxConns
  /\ conns' = conns + 1
  /\ UNCHANGED <<timers, exitCode>>
  /\ UNCHANGED <<authVars, bootVars, chainVars, twinVars, rootVars, diffVars>>

\* A connection ends. A closing server that has lost its last connection
\* emits 'close' on the next tick (Closed).
Disconnect ==
  /\ phase \in {"listening", "closing"}
  /\ conns > 0
  /\ conns' = conns - 1
  /\ UNCHANGED <<timers, exitCode>>
  /\ UNCHANGED <<authVars, bootVars, chainVars, twinVars, rootVars, diffVars>>

\* SIGTERM or SIGINT: shutdown(signal) calls server.close(callback), after
\* which the server accepts no connection, and sets the timer. A signal
\* that arrives during the shutdown runs shutdown again.
Signal ==
  /\ phase \in {"listening", "closing"}
  /\ ForceAfter \notin timers
  /\ phase' = "closing"
  /\ timers' = Armed(timers)
  /\ UNCHANGED <<conns, exitCode>>
  /\ UNCHANGED <<environ, cachedEnv, served>>
  /\ UNCHANGED <<authVars, chainVars, twinVars, rootVars, diffVars>>

\* The server has closed: the callback of server.close runs process.exit(0).
Closed ==
  /\ phase = "closing"
  /\ conns = 0
  /\ phase' = "exited"
  /\ exitCode' = 0
  /\ UNCHANGED <<conns, timers>>
  /\ UNCHANGED <<environ, cachedEnv, served>>
  /\ UNCHANGED <<authVars, chainVars, twinVars, rootVars, diffVars>>

\* A second passes while the server waits for its connections. The
\* callbacks that are due run before time passes.
Wait ==
  /\ phase = "closing"
  /\ conns > 0
  /\ 0 \notin timers
  /\ timers' = {t - 1 : t \in timers}
  /\ UNCHANGED <<conns, exitCode>>
  /\ UNCHANGED <<authVars, bootVars, chainVars, twinVars, rootVars, diffVars>>

\* A timer fires: process.exit(1).
Forced ==
  /\ phase = "closing"
  /\ conns > 0
  /\ 0 \in timers
  /\ phase' = "exited"
  /\ exitCode' = 1
  /\ UNCHANGED <<conns, timers>>
  /\ UNCHANGED <<environ, cachedEnv, served>>
  /\ UNCHANGED <<authVars, chainVars, twinVars, rootVars, diffVars>>

NextDown ==
  \/ Connect
  \/ Disconnect
  \/ Signal
  \/ Closed
  \/ Wait
  \/ Forced

\* The event loop runs the callbacks that are due, and time passes; a
\* client need not ever close its connection.
SpecDown ==
  /\ Init /\ [][NextDown]_vars
  /\ WF_vars(Closed) /\ WF_vars(Wait) /\ WF_vars(Forced)

\* ------------------------------------------------------ utils/deepDiff.ts
\* type DiffEntry = {path, type, before?, after?}
DiffEntry(path, type, old, new) ==
  [path |-> path, type |-> type, before |-> old, after |-> new]

\* Object.is(before, after): the same primitive value. The arrays and
\* objects of the calls are separate references, as those of a parsed text
\* and of a record read from the chain are.
ObjectIs(x, y) == x.type \notin {"object", "array"} /\ x = y

\* before && typeof before === 'object'
IsObj(x) == x.type \in {"object", "array"}

\* `${i}` of an index
IndexText(i) == <<"0", "1", "2", "3">>[i + 1]

\* k in b
HasKey(entries, key) == \E i \in 1..Len(entries) : entries[i].key = key

\* new Set([...Object.keys(b), ...Object.keys(a)]) in insertion order
UnionKeys(b, a) ==
  ObjectKeys(b) \o SelectSeq(ObjectKeys(a), LAMBDA k : ~HasKey(b, k))

RECURSIVE deepDiff(_, _, _)
RECURSIVE ArrayDiffs(_, _, _, _)
RECURSIVE ObjectDiffs(_, _, _, _, _)

\* for (let i = 0; i < max; i++) { ... }, from index i on
ArrayDiffs(a1, a2, basePath, i) ==
  LET max == IF Len(a1) > Len(a2) THEN Len(a1) ELSE Len(a2)
      p == basePath \o "[" \o IndexText(i) \o "]"
  IN IF i >= max THEN <<>>
     ELSE (IF i >= Len(a1) THEN <<DiffEntry(p, "added", Undefined, a2[i + 1])>>
           ELSE IF i >= Len(a2) THEN <<DiffEntry(p, "removed", a1[i + 1], Undefined)>>
           ELSE deepDiff(a1[i + 1], a2[i + 1], p))
            \o ArrayDiffs(a1, a2, basePath, i + 1)

\* for (const k of keys) { ... }, from the n-th key on
ObjectDiffs(b, a, basePath, keys, n) ==
  IF n > Len(keys) THEN <<>>
  ELSE LET k == keys[n]
           p == IF basePath # "" THEN basePath \o "." \o k ELSE k
       IN (IF ~HasKey(b, k) THEN <<DiffEntry(p, "added", Undefined, Get(a, k))>>
           ELSE IF ~HasKey(a, k) THEN <<DiffEntry(p, "removed", Get(b, k), Undefined)>>
           ELSE deepDiff(Get(b, k), Get(a, k), p))
            \o ObjectDiffs(b, a, basePath, keys, n + 1)

\* deepDiff(before, after, basePath = '')
deepDiff(x, y, basePath) ==
  IF ObjectIs(x, y) THEN <<>>
  ELSE IF ~IsObj(x) \/ ~IsObj(y)
  THEN <<DiffEntry(IF basePath # "" THEN basePath ELSE ".", "changed", x, y)>>
  ELSE IF x.type = "array" \/ y.type = "array"
  THEN ArrayDiffs(IF x.type = "array" THEN x.entries ELSE <<>>,
                  IF y.type = "array" THEN y.entries ELSE <<>>, basePath, 0)
  ELSE ObjectDiffs(x.entries, y.entries, basePath, UnionKeys(x.entries, y.entries), 1)

\* The values deepDiff is called with: primitives, arrays and objects, and
\* arrays and objects that hold them.
FlatValues ==
  { Str("1"), Num("1"), Str("2"), Null,
    Arr(<<>>), Arr(<<Str("1")>>), Arr(<<Str("1"), Str("2")>>),
    Obj(<<>>), Obj(<<Entry("a", Str("1"))>>), Obj(<<Entry("a", Str("2"))>>),
    Obj(<<Entry("a", Str("1")), Entry("b", Str("2"))>>),
    Obj(<<Entry("b", Str("2")), Entry("a", Str("1"))>>) }

DiffValues ==
  FlatValues
    \cup {Obj(<<Entry("a", v)>>) : v \in {Arr(<<>>), Obj(<<>>), Arr(<<Str("1")>>)}}
    \cup {Arr(<<v>>) : v \in {Arr(<<>>), Obj(<<>>), Obj(<<Entry("a", Str("1"))>>)}}

\* A call deepDiff(x, y).
Diff(x, y) ==
  /\ before' = x
  /\ after' = y
  /\ diffs' = deepDiff(x, y, "")
  /\ UNCHANGED <<authVars, bootVars, chainVars, twinVars, rootVars, downVars>>

NextDiff == \E x \in DiffValues, y \in DiffValues : Diff(x, y)

SpecDiff == Init /\ [][NextDiff]_vars

\* ------------------------------------------------- the blockchain routes
\* POST /blockchain/write with a bearer token and a body.
Write(tok, body) ==
  LET a == authenticateJwt(tok, env, now)
      ran == HandlerRuns(a)
      h == writeRoute(body, owner, signer, records, now)
  IN /\ last' = Outcome("write", tok.sub, tok, a.error,
                        IF a.nextCalled THEN h.status ELSE a.status,
                        IF a.nextCalled THEN h.error ELSE a.error,
                        NoToken, NoToken, ran, "idle")
     /\ tx' = IF ran THEN h.tx ELSE NoTx
     /\ emitted' = IF ran THEN h.events ELSE <<>>
     /\ records' = IF ran THEN h.records ELSE records
     /\ UNCHANGED <<env, refreshStore, nextId, now, minted, pending, rotatedOk, revokedIds, parent, pc>>
     /\ UNCHANGED <<bootVars, owner, signer, extVars>>

\* GET /blockchain/verify with a bearer token and a query.
Verify(tok, query) ==
  LET a == authenticateJwt(tok, env, now)
      ran == HandlerRuns(a)
      h == verifyRoute(query, records)
  IN /\ last' = Outcome("verify", tok.sub, tok, a.error,
                        IF a.nextCalled THEN h.status ELSE a.status,
                        IF a.nextCalled THEN h.body ELSE a.error,
                        NoToken, NoToken, ran, "idle")
     /\ tx' = NoTx
     /\ emitted' = <<>>
     /\ UNCHANGED <<env, refreshStore, nextId, now, minted, pending, rotatedOk, revokedIds, parent, pc>>
     /\ UNCHANGED <<bootVars, owner, signer, records, extVars>>

\* What can be sent as bearer token: the inputs of authenticateJwt, the
\* foreign refresh tokens, and an access token for another audience that
\* carries the signature of the access secret.
BearerInputs ==
  AccessInputs \cup Foreign(env)
    \cup {[sub |-> "app-1", iss |-> env.JWT_ISSUER, aud |-> "other-audience",
           jti |-> generateId(1, 0), type |-> "access", exp |-> MaxTime + 1,
           sig |-> env.JWT_ACCESS_SECRET]}

\* The accounts of the chain.
Accounts == {toLowerCase(text) : text \in AddressTexts}

\* An account calls store on the contract without the server.
CallStore(sender, hashValue, metadataRoot) ==
  LET r == store(records, toLowerCase(owner), sender, hashValue, metadataRoot, now)
  IN /\ records' = r.records
     /\ tx' = Tx("store", sender, r.reverted)
     /\ emitted' = r.events
     /\ last' = NoOutcome
     /\ UNCHANGED <<env, refreshStore, nextId, now, minted, pending, rotatedOk, revokedIds, parent, pc>>
     /\ UNCHANGED <<bootVars, owner, signer, extVars>>

\* The arrays of the direct storeBatch calls.
BatchCalls ==
  { <<(<<"h1", "h2">>), (<<ZeroHash, ZeroHash>>)>>,
    <<(<<"h1", "h2">>), (<<ZeroHash>>)>>,
    <<(<<"h2", "h2">>), (<<computeMetadataRoot(Meta1), ZeroHash>>)>> }

\* An account calls storeBatch on the contract without the server.
CallStoreBatch(sender, hashes, roots) ==
  LET r == storeBatch(records, toLowerCase(owner), sender, hashes, roots, now)
  IN /\ records' = r.records
     /\ tx' = Tx("storeBatch", sender, r.reverted)
     /\ emitted' = r.events
     /\ last' = NoOutcome
     /\ UNCHANGED <<env, refreshStore, nextId, now, minted, pending, rotatedOk, revokedIds, parent, pc>>
     /\ UNCHANGED <<bootVars, owner, signer, extVars>>

\* The server runs with the key of the owner, in either spelling of its
\* address, or with the key of another account.
InitChain ==
  /\ AuthInit
  /\ BootDone
  /\ Deployed /\ signer \in AddressTexts
  /\ ExtInit

\* One login, requests to the two routes, and calls from outside.
NextChain ==
  \/ minted = {} /\ Issue("app-1")
  \/ Tick
  \/ \E tok \in BearerInputs, body \in WriteBodies : Write(tok, body)
  \/ \E tok \in BearerInputs, query \in VerifyQueries : Verify(tok, query)
  \/ \E sender \in Accounts, hashValue \in Hashes : CallStore(sender, hashValue, ZeroHash)
  \/ \E sender \in Accounts, call \in BatchCalls : CallStoreBatch(sender, call[1], call[2])

SpecChain == InitChain /\ [][NextChain]_vars

\* ------------------------------------------------------------------ claims
\* The latest call was rotateRefreshToken on a refresh token this process
\* returned; the call happened at time now.
RotatedMinted == last.op = "rotate" /\ last.tok \in RefreshTokens

Expired(tok) == now >= tok.exp

\* C1, as stated: a refresh token is rotated successfully at most once, and
\* every rotation of it after the successful one fails with
\* refresh_reused_or_revoked.
C1_Original ==
  /\ \A jti \in DOMAIN rotatedOk : rotatedOk[jti] <= 1
  /\ (RotatedMinted /\ last.err # "" /\ Successes(last.tok.jti) >= 1)
       => last.err = "refresh_reused_or_revoked"

\* C1, amended: a refresh token is rotated successfully at most once; its
\* first rotation succeeds unless it has expired or been revoked; a rotation
\* after the successful one fails with refresh_reused_or_revoked while the
\* token is unexpired and with invalid_refresh once it has expired.
C1_SingleUse ==
  /\ \A jti \in DOMAIN rotatedOk : rotatedOk[jti] <= 1
  /\ (RotatedMinted /\ last.err # "" /\ Successes(last.tok.jti) >= 1)
       => last.err = IF Expired(last.tok) THEN "invalid_refresh"
                     ELSE "refresh_reused_or_revoked"
  /\ (RotatedMinted /\ Successes(last.tok.jti) = 0)
       => Expired(last.tok) \/ last.tok.jti \in revokedIds

\* A replay of a rotated, unexpired, unrevoked refresh token was rejected.
C1_Witness ==
  /\ RotatedMinted /\ last.err = "refresh_reused_or_revoked"
  /\ Successes(last.tok.jti) = 1
  /\ ~Expired(last.tok) /\ last.tok.jti \notin revokedIds


\* C2, as stated: of two rotations of one refresh id in flight together at
\* most one succeeds, and the other fails with refresh_reused_or_revoked.
C2_Original ==
  (last.op = "rotate" /\ last.rival = "won") => last.err = "refresh_reused_or_revoked"

\* C2, amended: of two rotations of one refresh id in flight together at most
\* one succeeds; the other fails with refresh_reused_or_revoked, or with
\* invalid_refresh when the token has expired by the time it is handled.
C2_RaceOneWinner ==
  /\ \A jti \in DOMAIN rotatedOk : rotatedOk[jti] <= 1
  /\ (last.op = "rotate" /\ last.rival = "won")
       => last.err = IF Expired(last.tok) THEN "invalid_refresh"
                     ELSE "refresh_reused_or_revoked"

\* The loser of a race was handled and saw the record invalid.
C2_Witness ==
  /\ last.op = "rotate" /\ last.rival = "won"
  /\ last.err = "refresh_reused_or_revoked"
  /\ ~refreshStore[last.tok.jti].valid

\* C3: a record that is invalid stays in the store and stays invalid; a
\* record becomes invalid only by a successful rotation of its id or by a
\* revokeFamily of its subject.
C3_Monotonic ==
  [][\A k \in DOMAIN refreshStore :
       /\ k \in DOMAIN refreshStore'
       /\ ~refreshStore[k].valid => ~refreshStore'[k].valid
       /\ (refreshStore[k].valid /\ ~refreshStore'[k].valid)
            => \/ last'.op = "rotate" /\ last'.err = "" /\ last'.tok.jti = k
               \/ last'.op = "revoke" /\ last'.sub = refreshStore[k].sub]_vars

\* A login of a subject after one of its records was revoked.
C3_Witness ==
  /\ last.op = "issue"
  /\ \E k \in DOMAIN refreshStore :
       ~refreshStore[k].valid /\ refreshStore[k].sub = last.sub /\ k \in revokedIds

\* C4: right after issueTokens (called by a login or by a successful
\* rotation) the returned refresh token's id has exactly one record, which
\* carries the subject and is valid.
C4_IssuedRecord ==
  (last.op \in {"issue", "rotate"} /\ last.err = "")
    => LET id == last.refreshToken.jti
       IN /\ last.refreshToken.type = "refresh"
          /\ id \in DOMAIN refreshStore
          /\ Cardinality({k \in DOMAIN refreshStore : refreshStore[k].jti = id}) = 1
          /\ refreshStore[id].sub = last.sub
          /\ refreshStore[id].valid

\* A login into a store that holds records already.
C4_Witness ==
  /\ last.op = "issue" /\ last.sub = "app-2"
  /\ Mints >= 2
  /\ refreshStore[last.refreshToken.jti].valid

\* C5, as stated: a refresh credential minted before a revokeFamily of its
\* subject fails every later rotation with refresh_reused_or_revoked.
C5_Original ==
  (RotatedMinted /\ last.tok.jti \in revokedIds)
    => last.err = "refresh_reused_or_revoked"

\* C5, amended: a refresh credential minted before a revokeFamily of its
\* subject fails every later rotation: with refresh_reused_or_revoked while it
\* is unexpired, with invalid_refresh once it has expired.
C5_RevokedFails ==
  /\ (RotatedMinted /\ last.tok.jti \in revokedIds)
       => last.err = IF Expired(last.tok) THEN "invalid_refresh"
                     ELSE "refresh_reused_or_revoked"
  /\ \A tok \in RefreshTokens :
       tok.jti \in revokedIds
         => rotateRefreshToken(tok, env, refreshStore, nextId, now).err # ""

\* A refresh credential that was never rotated is rejected after revocation.
C5_Witness ==
  /\ RotatedMinted /\ last.tok.jti \in revokedIds
  /\ Successes(last.tok.jti) = 0
  /\ last.err = "refresh_reused_or_revoked"

\* C6: revokeFamily(s) leaves every record of another subject as it was, and
\* a refresh credential of another subject that could be rotated before the
\* call can be rotated after it.
C6_SubjectScoped ==
  [][\A s \in Subjects :
       Revoke(s) =>
         /\ \A k \in DOMAIN refreshStore :
              refreshStore[k].sub # s
                => (k \in DOMAIN refreshStore' /\ refreshStore'[k] = refreshStore[k])
         /\ \A tok \in RefreshTokens :
              (tok.sub # s
                /\ rotateRefreshToken(tok, env, refreshStore, nextId, now).err = "")
                => rotateRefreshToken(tok, env', refreshStore', nextId', now').err = ""]_vars

\* A revocation that hit a record while another subject holds a rotatable one.
C6_Witness ==
  /\ last.op = "revoke"
  /\ \E k \in revokedIds : refreshStore[k].sub = last.sub
  /\ \E tok \in RefreshTokens :
       /\ tok.sub # last.sub
       /\ rotateRefreshToken(tok, env, refreshStore, nextId, now).err = ""

\* C7: a successful rotation of a refresh credential of subject s returns an
\* access token and a refresh token of subject s and registers a record of
\* subject s.
C7_SubjectPreserved ==
  (last.op = "rotate" /\ last.err = "")
    => LET s == refreshStore[last.tok.jti].sub
       IN /\ last.tok.sub = s
          /\ last.accessToken.sub = s /\ last.accessToken.type = "access"
          /\ last.refreshToken.sub = s /\ last.refreshToken.type = "refresh"
          /\ refreshStore[last.refreshToken.jti].sub = s

\* A successful rotation for the second subject.
C7_Witness ==
  /\ last.op = "rotate" /\ last.err = "" /\ last.tok.sub = "app-2"
  /\ last.refreshToken.jti # last.tok.jti

\* The latest call was authenticateJwt on an unexpired refresh token this
\* process returned.
PresentedRefresh ==
  last.op = "authenticate" /\ last.tok \in RefreshTokens /\ ~Expired(last.tok)

\* C8, as stated: an unexpired refresh token presented to authenticateJwt is
\* rejected with invalid_token_type and next() is not called.
C8_Original ==
  PresentedRefresh => (last.err = "invalid_token_type" /\ ~last.nextCalled)

\* C8, amended: an unexpired refresh token presented to authenticateJwt is
\* answered 401 and next() is not called; the error is invalid_token_type
\* when the refresh secret equals the access secret, and invalid_token when
\* the two secrets differ.
C8_RefreshRejected ==
  PresentedRefresh
    => /\ last.status = 401 /\ ~last.nextCalled
       /\ last.err = IF env.JWT_REFRESH_SECRET = env.JWT_ACCESS_SECRET
                     THEN "invalid_token_type" ELSE "invalid_token"

\* A refresh token reached the type check of authenticateJwt.
C8_Witness == PresentedRefresh /\ last.err = "invalid_token_type"

\* The latest call was rotateRefreshToken on an access token this process
\* returned.
PresentedAccess ==
  last.op = "rotate" /\ last.tok \in minted /\ last.tok.type = "access"

\* C9: an access token presented to rotateRefreshToken fails with
\* invalid_refresh, with equal secrets too, and nothing is minted.
C9_AccessNotRotated ==
  /\ PresentedAccess
       => /\ last.err = "invalid_refresh" /\ last.status = 401
          /\ last.accessToken = NoToken /\ last.refreshToken = NoToken
  /\ \A tok \in minted :
       tok.type = "access"
         => LET r == rotateRefreshToken(tok, env, refreshStore, nextId, now)
            IN r.err = "invalid_refresh" /\ r.store = refreshStore /\ r.nextId = nextId

\* An unexpired access token, signed with the secret the refresh tokens are
\* signed with, was presented to rotateRefreshToken.
C9_Witness ==
  /\ PresentedAccess /\ ~Expired(last.tok)
  /\ env.JWT_REFRESH_SECRET = env.JWT_ACCESS_SECRET

\* C10: an expired refresh token fails rotateRefreshToken with
\* invalid_refresh whatever its record says, an expired access token is
\* answered 401 invalid_token by authenticateJwt, and no expired token is
\* accepted by either.
C10_ExpiredRejected ==
  /\ (RotatedMinted /\ Expired(last.tok)) => last.err = "invalid_refresh"
  /\ (last.op = "authenticate" /\ last.tok \in minted /\ last.tok.type = "access"
        /\ Expired(last.tok))
       => (last.status = 401 /\ last.err = "invalid_token" /\ ~last.nextCalled)
  /\ (last.op \in {"rotate", "authenticate"} /\ last.tok # NoToken /\ Expired(last.tok))
       => (last.err # "" /\ ~last.nextCalled)

\* An expired refresh token whose record is still valid was presented.
C10_Witness ==
  /\ RotatedMinted /\ Expired(last.tok)
  /\ refreshStore[last.tok.jti].valid
  /\ last.err = "invalid_refresh"


\* The latest call was rotateRefreshToken on a token that verifies against
\* the refresh secret, is unexpired and of type refresh, and whose id this
\* process never gave to a refresh token.
PresentedUnknown ==
  /\ last.op = "rotate"
  /\ RotateVerify(last.tok, env, now) = "ok"
  /\ last.tok.type = "refresh"
  /\ last.tok.jti \notin {tok.jti : tok \in RefreshTokens}

\* C11: a correctly signed, unexpired refresh token whose id has no record
\* fails rotateRefreshToken with refresh_reused_or_revoked, and the store
\* holds no record for that id afterwards.
C11_UnknownIdRejected ==
  PresentedUnknown
    => /\ last.err = "refresh_reused_or_revoked"
       /\ last.accessToken = NoToken /\ last.refreshToken = NoToken
       /\ last.tok.jti \notin DOMAIN refreshStore

\* A token of an earlier run of the process was presented to a store that
\* holds records.
C11_Witness ==
  /\ PresentedUnknown /\ Mints >= 1
  /\ last.err = "refresh_reused_or_revoked"

\* C13: a step that runs authenticateJwt, whether it accepts or rejects the
\* presented token, leaves the store as it was.
C13_AuthKeepsStore ==
  [][last'.op = "authenticate" => refreshStore' = refreshStore]_vars

\* A refresh token with a valid record was presented to authenticateJwt.
C13_Witness ==
  /\ last.op = "authenticate" /\ last.tok \in RefreshTokens
  /\ refreshStore[last.tok.jti].valid

\* C14: after revokeFamily(s), another revokeFamily(s) changes nothing; and
\* revokeFamily(s) on a store without a record of s (the empty store too)
\* is defined and changes nothing.
C14_RevokeIdempotent ==
  /\ last.op = "revoke" => revokeFamily(refreshStore, last.sub) = refreshStore
  /\ \A s \in Subjects :
       (\A k \in DOMAIN refreshStore : refreshStore[k].sub # s)
         => revokeFamily(refreshStore, s) = refreshStore

\* A revocation that invalidated a record, in a store where the other
\* subject has no record.
C14_Witness ==
  /\ last.op = "revoke"
  /\ \E k \in DOMAIN refreshStore : refreshStore[k].sub = last.sub /\ k \in revokedIds
  /\ \E s \in Subjects : \A k \in DOMAIN refreshStore : refreshStore[k].sub # s

\* C15: every failing refresh request is answered 401 with the body
\* invalid_refresh, whichever error rotateRefreshToken threw.
C15_RefreshIndistinguishable ==
  /\ (last.op = "rotate" /\ last.err # "")
       => (last.status = 401 /\ last.body = "invalid_refresh")
  /\ \A t1, t2 \in RefreshInputs :
       LET e1 == rotateRefreshToken(t1, env, refreshStore, nextId, now).err
           e2 == rotateRefreshToken(t2, env, refreshStore, nextId, now).err
       IN (e1 # "" /\ e2 # "") => RefreshResponse(e1) = RefreshResponse(e2)

\* A consumed refresh token was rejected while another token would fail
\* verification.
C15_Witness ==
  /\ last.op = "rotate" /\ last.err = "refresh_reused_or_revoked"
  /\ Successes(last.tok.jti) >= 1
  /\ \E tok \in RefreshInputs :
       rotateRefreshToken(tok, env, refreshStore, nextId, now).err = "invalid_refresh"

\* C16: every rejection by authenticateJwt is the same response, the one a
\* request without a token gets.
C16_AuthIndistinguishable ==
  (last.op = "authenticate" /\ last.status = 401)
    => last.body = authenticateJwt(NoToken, env, now).error

\* C17: the record registered by a successful rotation carries the family
\* of the record it replaced.
C17_FamilyShared ==
  (last.op = "rotate" /\ last.err = "")
    => refreshStore[last.refreshToken.jti].family = refreshStore[last.tok.jti].family


\* C18: POST /auth/token answers 200 with tokens only to the configured
\* APP_ID and APP_SECRET, and then the tokens' subject is the appid and the
\* refresh token is registered; a body the schema rejects is answered 400
\* and other credentials 401, both without a token and without a change of
\* the store.
C18_LoginGate ==
  [][\A appid \in AppIds, appsecret \in AppSecrets :
       Login(appid, appsecret) =>
         /\ last'.status = 200
              => /\ appid = env.APP_ID /\ appsecret = env.APP_SECRET
                 /\ last'.accessToken.sub = appid /\ last'.refreshToken.sub = appid
                 /\ last'.accessToken.type = "access" /\ last'.refreshToken.type = "refresh"
                 /\ last'.refreshToken.jti \in DOMAIN refreshStore' \ DOMAIN refreshStore
                 /\ refreshStore'[last'.refreshToken.jti].sub = appid
         /\ ~tokenSchema(appid, appsecret) => last'.status = 400
         /\ (tokenSchema(appid, appsecret)
               /\ (appid # env.APP_ID \/ appsecret # env.APP_SECRET)) => last'.status = 401
         /\ last'.status # 200
              => /\ last'.status \in {400, 401}
                 /\ last'.accessToken = NoToken /\ last'.refreshToken = NoToken
                 /\ refreshStore' = refreshStore /\ minted' = minted
  ]_vars

\* The configured identifier with another secret was rejected after a
\* login had succeeded.
C18_Witness ==
  /\ last.op = "login" /\ last.sub = env.APP_ID /\ last.status = 401
  /\ Mints >= 1


\* C19: in an environment where one of the six options of the JWT functions
\* is absent or empty the server never listens and no handler runs: getEnv
\* throws while index.ts loads; and a handler that runs gets all six options
\* from getEnv without an exception.
C19_StartupFatal ==
  /\ (\E key \in JwtOptions : Missing(environ, key))
       => (phase # "listening" /\ served = NoCall)
  /\ served # NoCall
       => /\ ~served.threw /\ served.config # NullEnv
          /\ \A key \in JwtOptions : ~Missing(served.config, key)

\* The process has exited on an environment whose audience is empty.
C19_Witness ==
  /\ phase = "exited"
  /\ environ["JWT_AUDIENCE"] = ""
  /\ cachedEnv = NullEnv


\* The token is present, carries the signature of the access secret, is
\* unexpired, names the configured issuer and audience and is of type access.
Acceptable(tok) ==
  /\ tok # NoToken
  /\ tok.sig = env.JWT_ACCESS_SECRET
  /\ ~Expired(tok)
  /\ tok.iss = env.JWT_ISSUER /\ tok.aud = env.JWT_AUDIENCE
  /\ tok.type = "access"

\* C12: a request to POST /blockchain/write or GET /blockchain/verify whose
\* token is missing, fails verification or is not of type access is
\* answered 401, its handler does not run and no transaction is sent; the
\* handler runs only on an acceptable token.
C12_ProtectedRoutes ==
  last.op \in {"write", "verify"}
    => /\ last.nextCalled => Acceptable(last.tok)
       /\ ~Acceptable(last.tok)
            => (last.status = 401 /\ ~last.nextCalled /\ tx = NoTx)

\* A write request with the expired access token of a login was rejected.
C12_Witness ==
  /\ last.op = "write" /\ last.tok \in minted /\ last.tok.type = "access"
  /\ Expired(last.tok)
  /\ last.status = 401 /\ ~last.nextCalled

\* The body names a single hash or a batch whose metadatas, when given, are
\* as many as its hashes: the handler gets to the ownership check.
Operation(body) ==
  /\ body.wellTyped
  /\ body.hash # "" \/ Len(body.hashes) > 0
  /\ ~(Len(body.hashes) > 0 /\ body.hasMetadatas
         /\ Len(body.metadatas) # Len(body.hashes))

\* C20: the write route sends store or storeBatch only when the signer's
\* address equals the owner's without regard to case, and answers an
\* operation of another signer 403 not_owner without a transaction; a call
\* of store or storeBatch by another account than the owner reverts and
\* leaves every record as it was.
C20_OwnerOnly ==
  [][/\ last'.op = "write"
          => /\ tx'.fn # "none" => toLowerCase(signer) = toLowerCase(owner)
             /\ last'.status = 403
                  => /\ toLowerCase(signer) # toLowerCase(owner)
                     /\ last'.body = "not_owner"
                     /\ tx' = NoTx /\ records' = records
             /\ \A body \in WriteBodies :
                  (/\ last'.nextCalled /\ Operation(body)
                   /\ toLowerCase(signer) # toLowerCase(owner)
                   /\ Write(last'.tok, body))
                    => last'.status = 403
     /\ (tx'.fn \in {"store", "storeBatch"} /\ tx'.sender # toLowerCase(owner))
          => (tx'.reverted /\ records' = records)
  ]_vars

\* An authenticated write of a server that runs with another key than the
\* owner's was refused, on a contract that holds a record.
C20_Witness ==
  /\ last.op = "write" /\ last.nextCalled
  /\ last.status = 403 /\ last.body = "not_owner"
  /\ toLowerCase(signer) # toLowerCase(owner)
  /\ \E hashValue \in Hashes : records[hashValue].exists


\* C21: in every state, those between the statements of a rotation
\* included, a record minted by the rotation of r exists only when the
\* record of r is invalid.
C21_InvalidatedBeforeMint ==
  \A k \in DOMAIN refreshStore :
    parent[k] # 0 => ~refreshStore[parent[k]].valid

\* A rotation is between its two statements: the old record is invalid and
\* no replacement of it exists yet.
C21_Witness ==
  /\ pc.at = "second"
  /\ ~refreshStore[pc.tok.jti].valid
  /\ \A k \in DOMAIN refreshStore : parent[k] # pc.tok.jti


\* The token carries the signature of the refresh secret, is unexpired and
\* names the configured issuer and audience.
Decodes(tok) ==
  /\ tok.sig = env.JWT_REFRESH_SECRET
  /\ ~Expired(tok)
  /\ tok.iss = env.JWT_ISSUER /\ tok.aud = env.JWT_AUDIENCE

\* The store with no record for the id, with a valid and with an invalid one.
LedgerStates(jti, sub) ==
  { [k \in DOMAIN refreshStore \ {jti} |-> refreshStore[k]],
    MapSet(refreshStore, jti, RefreshRecord(jti, sub, 0, TRUE, 0)),
    MapSet(refreshStore, jti, RefreshRecord(jti, sub, 0, FALSE, 0)) }

\* C22: a token that fails verification or is not of type refresh fails
\* rotateRefreshToken with invalid_refresh whatever the store holds for its
\* id, and refresh_reused_or_revoked is the error only of tokens that
\* verify and are of type refresh.
C22_CheckOrder ==
  /\ last.op = "rotate"
       => /\ (~Decodes(last.tok) \/ last.tok.type # "refresh")
               => last.err = "invalid_refresh"
          /\ last.err = "refresh_reused_or_revoked"
               => (Decodes(last.tok) /\ last.tok.type = "refresh")
  /\ \A tok \in RefreshInputs :
       (~Decodes(tok) \/ tok.type # "refresh")
         => \A ledger \in LedgerStates(tok.jti, tok.sub) :
              rotateRefreshToken(tok, env, ledger, nextId, now).err = "invalid_refresh"

\* An expired refresh token of this process was rejected as invalid while
\* its record is still valid.
C22_Witness ==
  /\ last.op = "rotate" /\ last.tok \in RefreshTokens /\ Expired(last.tok)
  /\ last.err = "invalid_refresh"
  /\ refreshStore[last.tok.jti].valid

\* C23: a call of rotateRefreshToken that fails leaves the store as it
\* was, consumes no identifier and returns no token.
C23_FailureKeepsStore ==
  [][(last'.op = "rotate" /\ last'.err # "")
       => /\ refreshStore' = refreshStore
          /\ nextId' = nextId /\ minted' = minted
          /\ last'.accessToken = NoToken /\ last'.refreshToken = NoToken]_vars

\* A consumed token was replayed and rejected while the subject holds a
\* valid record.
C23_Witness ==
  /\ last.op = "rotate" /\ last.err = "refresh_reused_or_revoked"
  /\ Successes(last.tok.jti) = 1
  /\ \E k \in DOMAIN refreshStore :
       refreshStore[k].valid /\ refreshStore[k].sub = last.tok.sub

\* C24: no step removes a record, and no step changes the jti, sub, family
\* or expiresAt of a record.
C24_RecordsKept ==
  [][\A k \in DOMAIN refreshStore :
       /\ k \in DOMAIN refreshStore'
       /\ refreshStore'[k].jti = refreshStore[k].jti
       /\ refreshStore'[k].sub = refreshStore[k].sub
       /\ refreshStore'[k].family = refreshStore[k].family
       /\ refreshStore'[k].expiresAt = refreshStore[k].expiresAt]_vars

\* A record that was rotated and then revoked is in the store beside the
\* record that replaced it.
C24_Witness ==
  /\ last.op = "revoke"
  /\ \E k \in DOMAIN refreshStore :
       /\ Successes(k) = 1 /\ k \in revokedIds
       /\ \E j \in DOMAIN refreshStore : parent[j] = k


\* The refresh id of the login from which the record of k descends.
RECURSIVE Root(_)
Root(k) == IF parent[k] = 0 THEN k ELSE Root(parent[k])

\* The valid records of a subject.
ValidOf(subject) ==
  {k \in DOMAIN refreshStore : refreshStore[k].sub = subject /\ refreshStore[k].valid}

\* The records of a subject that a login registered.
LoginsOf(subject) ==
  {k \in DOMAIN refreshStore : refreshStore[k].sub = subject /\ parent[k] = 0}

\* C25: of the records that descend from one login at most one is valid,
\* and a subject has no more valid records than it has logged in.
C25_OneValidPerLogin ==
  /\ \A j, k \in DOMAIN refreshStore :
       (j # k /\ Root(j) = Root(k))
         => ~(refreshStore[j].valid /\ refreshStore[k].valid)
  /\ \A subject \in Subjects :
       Cardinality(ValidOf(subject)) <= Cardinality(LoginsOf(subject))

\* The credential of a login was rotated twice: the second replacement is
\* the valid record of the chain.
C25_Witness ==
  \E k \in DOMAIN refreshStore :
    /\ refreshStore[k].valid
    /\ parent[k] # 0 /\ parent[parent[k]] # 0
    /\ ~refreshStore[parent[k]].valid /\ ~refreshStore[Root(k)].valid


\* C26: no record minted by the rotation of r is registered after a
\* revokeFamily that found r in the store; every record a revokeFamily
\* found is invalid; and when revokeFamily has returned, with no rotation
\* in progress, the subject has no valid record.
C26_RotateRevokeAtomic ==
  /\ \A k \in DOMAIN refreshStore :
       (parent[k] # 0 /\ parent[k] \in revokedIds) => k \in revokedIds
  /\ \A k \in revokedIds : ~refreshStore[k].valid
  /\ (last.op = "revoke" /\ pc = Idle) => ValidOf(last.sub) = {}

\* A revokeFamily ran after a rotation had returned its replacement, and
\* the replacement is invalid.
C26_Witness ==
  /\ last.op = "revoke" /\ pc = Idle
  /\ \E k \in revokedIds : parent[k] # 0 /\ ~refreshStore[k].valid


\* The refresh token this process returned with the id k.
TokenOf(k) == CHOOSE tok \in RefreshTokens : tok.jti = k

\* The same records with every family replaced by one value.
FamiliesErased(ledger) == [k \in DOMAIN ledger |-> [ledger[k] EXCEPT !.family = 0]]

\* The latest call was the replay of a refresh token of this process that
\* a rotation had consumed.
Replayed ==
  /\ last.op = "rotate" /\ last.tok \in RefreshTokens
  /\ Successes(last.tok.jti) >= 1 /\ last.err # ""

\* The replacements of the replayed token that were neither rotated nor
\* in the store at a revokeFamily of their subject.
Untouched ==
  {k \in DOMAIN refreshStore :
     parent[k] = last.tok.jti /\ Successes(k) = 0 /\ k \notin revokedIds}

\* C27, as stated: the replay of a consumed refresh token fails with
\* refresh_reused_or_revoked, and the replacement is still valid and
\* rotatable.
C27_Original ==
  Replayed
    => /\ last.err = "refresh_reused_or_revoked"
       /\ \A k \in Untouched :
            /\ refreshStore[k].valid
            /\ rotateRefreshToken(TokenOf(k), env, refreshStore, nextId, now).err = ""

\* C27, amended: the replay of a consumed refresh token fails, with
\* refresh_reused_or_revoked while the token is unexpired and with
\* invalid_refresh once it has expired, and invalidates nothing: a record
\* is invalid only by its own rotation or by a revokeFamily, so the
\* replacement of the replayed token is still valid, and rotatable while
\* unexpired; and no outcome of rotateRefreshToken or revokeFamily depends
\* on a family field.
C27_ReuseRevokesNothing ==
  /\ Replayed
       => /\ last.err = IF Expired(last.tok) THEN "invalid_refresh"
                        ELSE "refresh_reused_or_revoked"
          /\ \A k \in Untouched :
               /\ refreshStore[k].valid
               /\ ~Expired(TokenOf(k))
                    => rotateRefreshToken(TokenOf(k), env, refreshStore,
                                          nextId, now).err = ""
  /\ \A k \in DOMAIN refreshStore :
       ~refreshStore[k].valid => (Successes(k) >= 1 \/ k \in revokedIds)
  /\ \A tok \in RefreshInputs :
       LET r == rotateRefreshToken(tok, env, refreshStore, nextId, now)
           e == rotateRefreshToken(tok, env, FamiliesErased(refreshStore), nextId, now)
       IN /\ r.err = e.err
          /\ r.accessToken = e.accessToken /\ r.refreshToken = e.refreshToken
          /\ FamiliesErased(r.store) = FamiliesErased(e.store)
  /\ \A subject \in Subjects :
       FamiliesErased(revokeFamily(refreshStore, subject))
         = revokeFamily(FamiliesErased(refreshStore), subject)

\* A consumed token was replayed and rejected, and its replacement is still
\* valid and unexpired.
C27_Witness ==
  /\ last.op = "rotate" /\ last.err = "refresh_reused_or_revoked"
  /\ Successes(last.tok.jti) = 1
  /\ \E k \in DOMAIN refreshStore :
       parent[k] = last.tok.jti /\ refreshStore[k].valid /\ ~Expired(TokenOf(k))

\* The id of the refresh token that issueTokens minted with the access token.
Sibling(tok) == generateId(tok.jti, 1)

\* C28: an unexpired access token of this process is accepted by
\* authenticateJwt in every state, whatever revokeFamily and
\* rotateRefreshToken have done to the store.
C28_AccessSurvives ==
  /\ \A tok \in minted :
       (tok.type = "access" /\ ~Expired(tok)) => authenticateJwt(tok, env, now).nextCalled
  /\ (last.op = "authenticate" /\ last.tok \in minted /\ last.tok.type = "access"
        /\ ~Expired(last.tok))
       => (last.nextCalled /\ last.status = 200)

\* An access token was accepted after the refresh token minted with it had
\* been revoked, the subject being left without a valid record.
C28_Witness ==
  /\ last.op = "authenticate" /\ last.tok \in minted /\ last.tok.type = "access"
  /\ last.nextCalled
  /\ Sibling(last.tok) \in revokedIds
  /\ ValidOf(last.tok.sub) = {}

\* C29: the record of a login is valid and its token rotatable, also after
\* a revokeFamily of the subject; a record that was not in the store at a
\* revokeFamily of its subject and was not rotated is valid.
C29_RevocationNotSticky ==
  /\ last.op = "issue"
       => /\ refreshStore[last.refreshToken.jti].valid
          /\ rotateRefreshToken(last.refreshToken, env, refreshStore, nextId, now).err = ""
  /\ \A k \in DOMAIN refreshStore :
       (k \notin revokedIds /\ Successes(k) = 0) => refreshStore[k].valid

\* A login of a subject whose earlier credential was revoked.
C29_Witness ==
  /\ last.op = "issue"
  /\ \E k \in revokedIds : refreshStore[k].sub = last.sub /\ ~refreshStore[k].valid
  /\ refreshStore[last.refreshToken.jti].valid

\* The refresh credential of the record has expired.
RecordExpired(k) == now * 1000 >= refreshStore[k].expiresAt

\* C30, as stated: every record is invalidated in its lifetime: a record
\* whose credential has expired is not valid.
C30_Original ==
  \A k \in DOMAIN refreshStore : RecordExpired(k) => ~refreshStore[k].valid

\* C30, amended: a record is invalid exactly when it was rotated or was in
\* the store at a revokeFamily of its subject, and it is rotated at most
\* once; a record that expires without either stays in the store with
\* valid = true, and its token is rejected with invalid_refresh.
C30_InvalidatedAtMostOnce ==
  /\ \A k \in DOMAIN refreshStore :
       /\ ~refreshStore[k].valid <=> (Successes(k) >= 1 \/ k \in revokedIds)
       /\ Successes(k) <= 1
  /\ \A tok \in RefreshTokens :
       (Expired(tok) /\ Successes(tok.jti) = 0 /\ tok.jti \notin revokedIds)
         => /\ RecordExpired(tok.jti) /\ refreshStore[tok.jti].valid
            /\ rotateRefreshToken(tok, env, refreshStore, nextId, now).err
                 = "invalid_refresh"

\* A credential has expired without a rotation or a revocation, and its
\* record is valid.
C30_Witness ==
  \E k \in DOMAIN refreshStore :
    /\ RecordExpired(k) /\ refreshStore[k].valid
    /\ Successes(k) = 0 /\ k \notin revokedIds

\* The latest call presented, at the second instance, a refresh token that
\* the first instance minted.
Crossed == last.op = "peer-rotate" /\ last.tok.jti \in DOMAIN refreshStore

\* The records of the second instance that no rotation consumed and that
\* were not in its store at a revokeFamily there.
PeerUntouched ==
  {k \in DOMAIN peerStore : Successes(k) = 0 /\ k \notin peerRevoked}

\* C31, as stated: a refresh token minted by one instance is rejected by
\* the other with refresh_reused_or_revoked; it is redeemed at most once in
\* total; a revokeFamily at the first instance leaves the credentials the
\* second minted redeemable there.
C31_Original ==
  /\ Crossed => last.err = "refresh_reused_or_revoked"
  /\ \A k \in DOMAIN rotatedOk : rotatedOk[k] <= 1
  /\ \A k \in PeerUntouched :
       /\ peerStore[k].valid
       /\ ~Expired(TokenOf(k))
            => rotateRefreshToken(TokenOf(k), env, peerStore, nextId, now).err = ""

\* C31, amended: a refresh token minted by one instance is rejected by the
\* other, with refresh_reused_or_revoked (no record) while it is unexpired
\* and with invalid_refresh once it has expired; it is redeemed at most
\* once in total; a revokeFamily at the first instance changes no record
\* of the second, so a credential the second minted is redeemable there
\* until it is rotated, revoked there, or expires.
C31_AcrossInstances ==
  /\ Crossed => last.err = IF Expired(last.tok) THEN "invalid_refresh"
                           ELSE "refresh_reused_or_revoked"
  /\ DOMAIN refreshStore \cap DOMAIN peerStore = {}
  /\ \A k \in DOMAIN rotatedOk : rotatedOk[k] <= 1
  /\ \A k \in PeerUntouched :
       /\ peerStore[k].valid
       /\ ~Expired(TokenOf(k))
            => rotateRefreshToken(TokenOf(k), env, peerStore, nextId, now).err = ""

\* The second instance rejected a token that is still valid and unexpired
\* at the first, after the first revoked the subject while the second
\* holds a valid record of it.
C31_Witness ==
  /\ Crossed /\ last.err = "refresh_reused_or_revoked"
  /\ refreshStore[last.tok.jti].valid
  /\ revokedIds # {}
  /\ \E k \in PeerUntouched : peerStore[k].sub = last.tok.sub /\ ~Expired(TokenOf(k))

\* C32: once getEnv has returned, the cached configuration never changes
\* and every later call returns it, whatever becomes of process.env; a call
\* that throws leaves the cache empty.
C32_ConfigFrozen ==
  [][/\ cachedEnv # NullEnv
          => /\ cachedEnv' = cachedEnv
             /\ served' # served => (~served'.threw /\ served'.config = cachedEnv)
     /\ phase' = "exited" => cachedEnv' = NullEnv
     /\ getEnv(environ, cachedEnv).threw
          => getEnv(environ, cachedEnv).cachedEnv = NullEnv]_vars

\* A handler was given the configuration of the start although a secret
\* has been replaced and the issuer deleted since.
C32_Witness ==
  /\ served # NoCall /\ served.config = cachedEnv
  /\ environ["JWT_ACCESS_SECRET"] = "changed" /\ environ["JWT_ISSUER"] = "absent"
  /\ cachedEnv["JWT_ACCESS_SECRET"] = "set" /\ cachedEnv["JWT_ISSUER"] = "set"

\* A body that writeSchema accepts and that names no operation, or a batch
\* with a metadatas array of another length than hashes.
IllFormed(body) ==
  /\ body.wellTyped
  /\ \/ Len(body.hashes) > 0 /\ body.hasMetadatas
          /\ Len(body.metadatas) # Len(body.hashes)
     \/ body.hash = "" /\ Len(body.hashes) = 0

\* A body with a hash and a batch that passes the checks.
Both(body) ==
  /\ body.wellTyped /\ body.hash \in Hashes /\ Len(body.hashes) > 0
  /\ ~IllFormed(body)

C34_StorageImmutable ==
  [][\A h \in Hashes : records[h].exists => records'[h] = records[h]]_vars

\* The index of the last occurrence of a hash in a batch.
LastOf(hashes, h) == CHOOSE i \in 1..Len(hashes) :
                       hashes[i] = h /\ \A j \in (i + 1)..Len(hashes) : hashes[j] # h

\* C35: a storeBatch call with arrays of different lengths reverts, writes
\* no record and emits no event; a call of the owner with arrays of one
\* length gives every hash of the batch the record of its last pair,
\* leaves the other hashes alone and emits one event per pair, in order.
C35_BatchAllOrNothing ==
  [][(tx'.fn = "storeBatch" /\ last' = NoOutcome)
       => \A sender \in Accounts, call \in BatchCalls :
            CallStoreBatch(sender, call[1], call[2])
              => LET hashes == call[1]
                     roots == call[2]
                 IN /\ Len(hashes) # Len(roots)
                         => tx'.reverted /\ records' = records /\ emitted' = <<>>
                    /\ (Len(hashes) = Len(roots) /\ sender = toLowerCase(owner))
                         => /\ ~tx'.reverted
                            /\ \A h \in Hashes :
                                 records'[h] =
                                   IF \E i \in 1..Len(hashes) : hashes[i] = h
                                   THEN [exists |-> TRUE,
                                         metadataRoot |-> roots[LastOf(hashes, h)],
                                         timestamp |-> now]
                                   ELSE records[h]
                            /\ Len(emitted') = Len(hashes)
                            /\ \A i \in 1..Len(hashes) :
                                 emitted'[i] = HashStored(sender, hashes[i], roots[i], now)
  ]_vars

\* The owner has stored a batch that holds one hash twice, and the record
\* of the hash is that of the second pair.
C35_Witness ==
  /\ tx = Tx("storeBatch", toLowerCase(owner), FALSE) /\ last = NoOutcome
  /\ Len(emitted) = 2 /\ emitted[1].hashValue = emitted[2].hashValue
  /\ emitted[1].metadataRoot # emitted[2].metadataRoot
  /\ records[emitted[2].hashValue].metadataRoot = emitted[2].metadataRoot

\* The metadata object of a query, when its text is JSON.
Supplied(query) == query.metadata \in {"json-1", "json-2"}

Fields(metadata) == {metadata[i] : i \in 1..Len(metadata)}

\* Both handlers have computed a commitment.
Computed == writtenRoot # "none" /\ presentedRoot # "none"

\* C37: the commitment of a metadata object is the same for every order
\* of its keys (and for every repetition of the computation).
C37_OrderIndependent ==
  /\ (Computed /\ Fields(written) = Fields(presented)) => writtenRoot = presentedRoot
  /\ writtenRoot # "none" => writtenRoot = computeMetadataRoot(written)

\* The commitment was computed for an object of two keys and for the same
\* object with its keys in the other order.
C37_Witness ==
  /\ Computed /\ Len(written) = 2
  /\ Fields(written) = Fields(presented) /\ written # presented

\* C38: two metadata objects that differ in a key or in a value have
\* different canonical strings, and so different commitments.
C38_ChangeDetected ==
  (Computed /\ Fields(written) # Fields(presented))
    => /\ canonical(written) # canonical(presented)
       /\ writtenRoot # presentedRoot

\* C39: after SIGTERM or SIGINT the process eventually exits; it exits
\* with code 0 only when the server has closed, which happens before a
\* timer of ten seconds has run out, and with code 1 only when a timer has
\* run out with a connection still open.
C39_ShutdownTerminates ==
  /\ (phase = "closing") ~> (phase = "exited")
  /\ [](phase = "exited"
          => /\ timers # {}
             /\ exitCode = 0 => conns = 0
             /\ exitCode = 1 => (0 \in timers /\ conns > 0)
             /\ exitCode \in {0, 1})

\* The process was forced to exit with code 1, a connection being open
\* when the timer ran out.
C39_Witness ==
  phase = "exited" /\ exitCode = 1 /\ conns > 0 /\ 0 \in timers

\* Structural equality of two values: the same primitive, arrays of equal
\* items in order, or objects of the same keys with equal values.
RECURSIVE StructEq(_, _)
StructEq(x, y) ==
  /\ x.type = y.type
  /\ x.text = y.text
  /\ x.type = "array"
       => /\ Len(x.entries) = Len(y.entries)
          /\ \A i \in 1..Len(x.entries) : StructEq(x.entries[i], y.entries[i])
  /\ x.type = "object"
       => /\ {e.key : e \in Fields(x.entries)} = {e.key : e \in Fields(y.entries)}
          /\ \A e \in Fields(x.entries) : StructEq(e.value, Get(y.entries, e.key))

\* C40: deepDiff(before, after) is the empty list exactly when the two
\* values are structurally equal.
C40_DiffExact ==
  before # Undefined => (diffs = <<>> <=> StructEq(before, after))

====
